---------------------------- MODULE Spec2Model ----------------------------
(***************************************************************************)
(* A model of ggoled: the 1-bit Bitmap (ggoled_lib/src/bitmap.rs), the     *)
(* Device handle (ggoled_lib/src/lib.rs) and the layered renderer with its *)
(* worker thread (ggoled_draw/src/lib.rs).                                 *)
(*                                                                         *)
(* Time is an integer count of clock units, UnitsPerSec of them to the     *)
(* second.  An Instant is a number of units since the worker thread was    *)
(* spawned, a Duration a number of units.  Option<T> is a sequence of      *)
(* length 0 (None) or 1 (Some).                                            *)
(***************************************************************************)
EXTENDS Integers, Sequences, FiniteSets, TLC

VARIABLES
    \* ---- shared between the client and the worker
    layers,               \* Arc<Mutex<LayerMap>>: LayerId -> DrawLayerState
    mutex,                \* who holds the layer-store mutex
    cmd_queue,            \* mpsc channel of DrawCommand, client -> worker
    event_queue,          \* mpsc channel of DrawEvent, worker -> client
    \* ---- DrawDevice (the client side)
    layer_counter,        \* DrawDevice.layer_counter
    cpc,                  \* where the client is: idle, in a transaction, joining, stopped, dropped
    txn,                  \* the running transact_layers call: edits applied / to apply
    \* ---- run_draw_device_thread (the worker's locals)
    pc,                   \* the worker's position in its loop
    time, stop_after_frame, playing, oled_shift, last_shift, shift_mode,
    connected, last_connect_attempt, last_frame_time, prev_screen,
    shift,                \* (shift_x, shift_y) of this tick
    render_ops, screen, frame_time,
    \* ---- the environment
    now,                  \* the monotonic clock, Instant::now()
    iter,                 \* loop iterations the worker has started
    faults,               \* device failures the environment may still inject
    pending,              \* input reports the device may still deliver
    \* ---- observations (history of what the program did, read by the properties)
    io,                   \* the device call made by the latest step, if it was the worker's
    issued,               \* every LayerId returned to the client, in order
    play_at,              \* when the observed play() call was made
    forced_seen,          \* a forced redraw reached the device since play_at
    received,             \* every DrawEvent try_event has returned, in order
    \* ---- Device (ggoled_lib)
    hid,                  \* the running Device call and what it wrote to the HID handle
    device                \* the Device struct and the HID endpoints under it

vars == <<layers, mutex, cmd_queue, event_queue, layer_counter, cpc, txn, pc,
          time, stop_after_frame, playing, oled_shift, last_shift, shift_mode,
          connected, last_connect_attempt, last_frame_time, prev_screen, shift,
          render_ops, screen, frame_time, now, iter, faults, pending, io, issued,
          play_at, forced_seen, received, hid, device>>

(***************************************************************************)
(* Bounds of the model.                                                    *)
(***************************************************************************)
UnitsPerSec == 2
Fps == 2
MaxQueue == 1
MaxFaults == 2
MaxTicks == 4
MaxPresentTicks == 3
MaxPresentId == 1
MaxPresentFaults == 1
MaxRefreshTicks == 5
MaxTxnTicks == 1
MaxTxnOps == 2
MaxId == 3
MaxComposeTicks == 1
MaxComposeId == 2
MaxShiftTicks == 9
MaxAnimTicks == 3
MaxAnimId == 1
MaxStopTicks == 2
MaxStopFaults == 1
MaxFifoTicks == 2
MaxFifoQueue == 2
MaxEventTicks == 3
MaxEventFaults == 1
MaxReports == 2
MaxBitmapW == 256
MaxBitmapH == 128
MaxCrop == 3
ISIZE_BITS == 16
MaxBlitOffset == 4
MaxTextId == 3
MaxHandles == 6
MaxReads == 2
MaxConnTicks == 5
MaxConnFaults == 3
MaxConnQueue == 2
MaxMarqueeTicks == 34
MaxMarqueeId == 1
MaxIdleTicks == 3
MaxIdleFaults == 1
MaxIdleId == 2
MaxLiveTicks == 2
MaxLiveFaults == 1
MaxLiveId == 1
MaxLiveOps == 1
MaxLiveQueue == 1
MaxScrollTicks == 232
MaxScrollId == 1

(***************************************************************************)
(* Program constants.                                                      *)
(***************************************************************************)
DEVICE_WIDTH == 128
DEVICE_HEIGHT == 64
BASE_STATION_VOLUME_MAX == 56
U8_MAX == 255
SCREEN_REPORT_SPLIT_SZ == 64
SCREEN_REPORT_SIZE == 1024
MAX_ANIM_CATCHUP_STEPS == 8
MARGIN == 30
OLED_SHIFT_PERIOD == 90 * UnitsPerSec
RECONNECT_PERIOD == 1 * UnitsPerSec
SCROLL_REVOLUTION_PAUSE_Truncated == (900 * UnitsPerSec) \div 1000

\* 900 ms, to the nearest clock unit
SCROLL_REVOLUTION_PAUSE == ((900 * UnitsPerSec) + 500) \div 1000
FORCE_REDRAW_PERIOD == 1 * UnitsPerSec
OLED_SHIFTS == << <<0, 0>>, <<0, -1>>, <<1, -1>>, <<1, 0>>, <<1, 1>>,
                  <<0, 1>>, <<-1, 1>>, <<-1, 0>>, <<-1, -1>> >>
\* frame_delay = Duration::from_nanos(1_000_000_000 / fps)
frame_delay == UnitsPerSec \div Fps

(***************************************************************************)
(* Arithmetic and Option helpers.                                          *)
(***************************************************************************)
Max(a, b) == IF a >= b THEN a ELSE b
Min(a, b) == IF a <= b THEN a ELSE b
saturating_sub(a, b) == IF a >= b THEN a - b ELSE 0
\* Instant::duration_since: zero when the earlier instant is later
duration_since(a, b) == saturating_sub(a, b)
\* isize division truncates toward zero
TruncDiv_Floor(a, b) == a \div b
TruncDiv(a, b) == IF a >= 0 THEN a \div b ELSE -((-a) \div b)
None == <<>>
Some(v) == <<v>>
is_some(o) == Len(o) = 1
unwrap_or(o, d) == IF Len(o) = 1 THEN o[1] ELSE d

(***************************************************************************)
(* Bitmap: w, h and the set of indices y*w + x of the bits that are set.   *)
(***************************************************************************)
Bitmap_new(w, h, on) ==
    [w |-> w, h |-> h, data |-> IF on THEN 0 .. (w * h - 1) ELSE {}]

\* Bitmap::crop: the two asserts, then the loops `for y in 0..h { for x in
\* 0..w { data.push(self.data[x + y * self.w]) } }`, whose x and y are the
\* loop variables: bit j * w + i of the result is bit i + j * self.w of self
crop(self, x, y, w, h) ==
    IF ~(x <= self.w /\ y <= self.h) \/ ~(w <= self.w - x /\ h <= self.h - y)
    THEN [panic |-> TRUE, bitmap |-> self]
    ELSE [panic |-> FALSE,
          bitmap |-> [w |-> w, h |-> h,
                      data |-> {c[2] * w + c[1] :
                                   c \in {p \in (0 .. w - 1) \X (0 .. h - 1) :
                                              (p[1] + p[2] * self.w) \in self.data}}]]

\* isize: ISIZE_BITS stands for the 64 bits of the target, and is wider
\* than every coordinate the worker computes
ISIZE_MIN == -(2 ^ (ISIZE_BITS - 1))
ISIZE_MAX == (2 ^ (ISIZE_BITS - 1)) - 1

\* `-x` on an isize without overflow checks (the release profile): the
\* negation of isize::MIN wraps to isize::MIN
neg_isize(v) == IF v = ISIZE_MIN THEN ISIZE_MIN ELSE -v

\* `-x` with overflow checks (the dev profile) panics on isize::MIN
neg_overflows(v) == v = ISIZE_MIN

\* the pairs (si, oi) of bit indices that the loops of Bitmap::blit visit:
\* si is written (and read when not opaque) in self, oi is read in other
blit_cells(self, other, x, y) ==
    LET src_x_start == Max(neg_isize(x), 0)
        src_y_start == Max(neg_isize(y), 0)
        dst_x_start == Max(x, 0)
        dst_y_start == Max(y, 0)
        overlap_w == Min(saturating_sub(other.w, src_x_start),
                         saturating_sub(self.w, dst_x_start))
        overlap_h == Min(saturating_sub(other.h, src_y_start),
                         saturating_sub(self.h, dst_y_start))
        cells == (src_x_start .. (src_x_start + overlap_w - 1))
                 \X (src_y_start .. (src_y_start + overlap_h - 1))
    IN  IF overlap_w = 0 \/ overlap_h = 0
        THEN {}
        ELSE {[si |-> (dst_x_start + (c[1] - src_x_start))
                      + (dst_y_start + (c[2] - src_y_start)) * self.w,
               oi |-> c[1] + c[2] * other.w] : c \in cells}

blit(self, other, x, y, opaque) ==
    LET cells == blit_cells(self, other, x, y)
        written == {c.si : c \in cells}
        set_on == {c.si : c \in {d \in cells : d.oi \in other.data}}
    IN  [self EXCEPT !.data = IF opaque
                               THEN (self.data \ written) \cup set_on
                               ELSE self.data \cup set_on]


(***************************************************************************)
(* DrawLayer, Frame and the per-layer state.                               *)
(***************************************************************************)
Frame(bitmap, delay) == [bitmap |-> bitmap, delay |-> delay]
Image(bitmap, x, y) == [kind |-> "Image", bitmap |-> bitmap, x |-> x, y |-> y]
ImageNoShift(bitmap, x, y) ==
    [kind |-> "ImageNoShift", bitmap |-> bitmap, x |-> x, y |-> y]
Animation(frames, x, y, follow_fps) ==
    [kind |-> "Animation", frames |-> frames, x |-> x, y |-> y,
     follow_fps |-> follow_fps]
Scroll(bitmap, y) == [kind |-> "Scroll", bitmap |-> bitmap, y |-> y]
ScrollNoShift(bitmap, y) == [kind |-> "ScrollNoShift", bitmap |-> bitmap, y |-> y]

\* LayerId::none()
LayerId_none == 0

\* the id add_layer_to_map hands out: the incremented counter
NextLayerId_Reuse(counter, map) == Cardinality(DOMAIN map) + 1
NextLayerId(counter, map) == counter + 1

\* BTreeMap::insert
MapInsert(map, id, st) ==
    [k \in DOMAIN map \cup {id} |-> IF k = id THEN st ELSE map[k]]
\* BTreeMap::remove
MapRemove(map, ids) == [k \in DOMAIN map \ ids |-> map[k]]
EmptyMap == [k \in {} |-> 0]

\* returns the new counter, the new map and the id
add_layer_to_map(counter, map, layer, t) ==
    LET id == NextLayerId(counter, map)
    IN  [layer_counter |-> id,
         layers |-> MapInsert(map, id,
                        [layer |-> layer,
                         anim |-> [ticks |-> 0, next_update |-> t],
                         scroll |-> [x |-> 0, pause_until |-> None]]),
         ids |-> <<id>>]

\* if bitmap.w >= width && matches!(mode, TextOverflowMode::Scroll)
TextScrolls_Wider(bitmap, width, mode) == bitmap.w > width /\ mode = "Scroll"
TextScrolls(bitmap, width, mode) == bitmap.w >= width /\ mode = "Scroll"

\* The text renderer is outside the model: its result for the text, the
\* bitmaps of the lines (render_lines) and line_height, is the input.
RECURSIVE add_text_lines(_, _, _, _, _, _, _, _, _, _, _)
add_text_lines(width, center_y, line_height, acc, bitmaps, i, x, y, do_shift, mode, t) ==
    IF i > Len(bitmaps)
    THEN acc
    ELSE LET bitmap == bitmaps[i]
             ly == unwrap_or(y, center_y) + ((i - 1) * line_height)
             center_x == TruncDiv(width - bitmap.w, 2)
             layer == IF TextScrolls(bitmap, width, mode)
                      THEN IF do_shift THEN Scroll(bitmap, ly)
                                    ELSE ScrollNoShift(bitmap, ly)
                      ELSE IF do_shift
                           THEN Image(bitmap, unwrap_or(x, center_x), ly)
                           ELSE ImageNoShift(bitmap, unwrap_or(x, center_x), ly)
             r == add_layer_to_map(acc.layer_counter, acc.layers, layer, t)
         IN  add_text_lines(width, center_y, line_height,
                            [r EXCEPT !.ids = acc.ids \o r.ids],
                            bitmaps, i + 1, x, y, do_shift, mode, t)

add_text_layers(width, height, counter, map, bitmaps, line_height, x, y, do_shift, mode, t) ==
    LET center_y == TruncDiv(height - (line_height * Len(bitmaps)), 2)
    IN  add_text_lines(width, center_y, line_height,
                       [layer_counter |-> counter, layers |-> map, ids |-> <<>>],
                       bitmaps, 1, x, y, do_shift, mode, t)

(***************************************************************************)
(* Animation timing.                                                       *)
(***************************************************************************)
normalize_anim_delay_NoClamp(delay, fallback_delay) == unwrap_or(delay, fallback_delay)
normalize_anim_delay(delay, fallback_delay) ==
    LET d == unwrap_or(delay, fallback_delay)
    IN  IF d = 0 THEN fallback_delay ELSE d

\* usize::wrapping_add (the wrap at 2^64 is out of reach of any run)
wrapping_add_Twice(a, b) == a + b + b
wrapping_add(a, b) == a + b

\* while now >= anim.next_update && steps < MAX_ANIM_CATCHUP_STEPS
CatchupContinues_Uncapped(t, next_update, steps) == t >= next_update
CatchupContinues(t, next_update, steps) ==
    t >= next_update /\ steps < MAX_ANIM_CATCHUP_STEPS

\* the while loop of advance_animation_state
RECURSIVE anim_catchup(_, _, _, _, _)
anim_catchup(anim, frames, t, fallback_delay, steps) ==
    IF CatchupContinues(t, anim.next_update, steps)
    THEN LET idx == anim.ticks % Len(frames)
             delay == normalize_anim_delay(frames[idx + 1].delay, fallback_delay)
         IN  anim_catchup([ticks |-> wrapping_add(anim.ticks, 1),
                           next_update |-> anim.next_update + delay],
                          frames, t, fallback_delay, steps + 1)
    ELSE anim

\* returns the new AnimState and the Option<usize> frame to render
advance_animation_state(anim, frames, follow_fps, t, fallback_delay) ==
    IF Len(frames) = 0
    THEN [anim |-> anim, idx |-> None]
    ELSE LET render_idx == anim.ticks % Len(frames)
         IN  IF follow_fps
             THEN [anim |-> [anim EXCEPT !.ticks = wrapping_add(anim.ticks, 1)],
                   idx |-> Some(render_idx)]
             ELSE IF t >= anim.next_update
                  THEN LET a == anim_catchup(anim, frames, t, fallback_delay, 0)
                       IN  [anim |-> IF t >= a.next_update
                                     THEN [a EXCEPT !.next_update = t + fallback_delay]
                                     ELSE a,
                            idx |-> Some(render_idx)]
                  ELSE [anim |-> anim, idx |-> Some(render_idx)]

(***************************************************************************)
(* Planning the render ops of one frame (the critical section) and         *)
(* executing them.                                                         *)
(***************************************************************************)
BlitOp(bitmap, x, y) == [op |-> "Blit", bitmap |-> bitmap, x |-> x, y |-> y]
ScrollOp(bitmap, x, y, scroll_w, dupes) ==
    [op |-> "Scroll", bitmap |-> bitmap, x |-> x, y |-> y,
     scroll_w |-> scroll_w, dupes |-> dupes]

\* the scroll state after one planned tick
\* let scroll_w = (b.w + MARGIN) as isize
scroll_width(bitmap) == bitmap.w + MARGIN

\* if scroll.x <= -scroll_w, tested on the decremented x
ScrollWraps_Late(x, scroll_w) == x < -scroll_w

ScrollWraps(x, scroll_w) == x <= -scroll_w

advance_scroll(scroll, scroll_w, t) ==
    LET paused == is_some(scroll.pause_until) /\ t < scroll.pause_until[1]
    IN  IF ~paused
        THEN IF ScrollWraps(scroll.x - 1, scroll_w)
             THEN [x |-> scroll.x - 1 + scroll_w,
                   pause_until |-> Some(t + SCROLL_REVOLUTION_PAUSE)]
             ELSE [scroll EXCEPT !.x = scroll.x - 1]
        ELSE IF is_some(scroll.pause_until) /\ t >= scroll.pause_until[1]
             THEN [scroll EXCEPT !.pause_until = None]
             ELSE scroll

\* one arm of the match over state.layer: the ops pushed and the new state
ImageNoShiftOffset_Shifted(sh) == sh
ImageNoShiftOffset(sh) == <<0, 0>>

\* let dupes = 1 + dev.width / scroll_w as usize;
scroll_dupes_NoSpare(dev_width, scroll_w) == dev_width \div scroll_w
scroll_dupes(dev_width, scroll_w) == 1 + (dev_width \div scroll_w)

plan_layer(state, t, sh, dev_width) ==
    LET l == state.layer
    IN  CASE l.kind = "Image" ->
               [ops |-> <<BlitOp(l.bitmap, l.x + sh[1], l.y + sh[2])>>, state |-> state]
          [] l.kind = "ImageNoShift" ->
               [ops |-> <<BlitOp(l.bitmap, l.x + ImageNoShiftOffset(sh)[1],
                                           l.y + ImageNoShiftOffset(sh)[2])>>,
                state |-> state]
          [] l.kind = "Animation" ->
               LET r == advance_animation_state(state.anim, l.frames, l.follow_fps,
                                                t, frame_delay)
               IN  [ops |-> IF is_some(r.idx)
                            THEN <<BlitOp(l.frames[r.idx[1] + 1].bitmap,
                                          l.x + sh[1], l.y + sh[2])>>
                            ELSE <<>>,
                    state |-> [state EXCEPT !.anim = r.anim]]
          [] l.kind = "Scroll" ->
               LET scroll_w == scroll_width(l.bitmap)
                   dupes == scroll_dupes(dev_width, scroll_w)
               IN  [ops |-> <<ScrollOp(l.bitmap, state.scroll.x + sh[1], l.y + sh[2],
                                       scroll_w, dupes)>>,
                    state |-> [state EXCEPT
                                 !.scroll = advance_scroll(state.scroll, scroll_w, t)]]
          [] l.kind = "ScrollNoShift" ->
               LET scroll_w == scroll_width(l.bitmap)
                   dupes == scroll_dupes(dev_width, scroll_w)
               IN  [ops |-> <<ScrollOp(l.bitmap, state.scroll.x, l.y, scroll_w, dupes)>>,
                    state |-> [state EXCEPT
                                 !.scroll = advance_scroll(state.scroll, scroll_w, t)]]

\* ids of a LayerMap in BTreeMap iteration order (ascending)
RECURSIVE SortedIds(_)
SortedIds(S) ==
    IF S = {} THEN <<>>
    ELSE LET m == CHOOSE a \in S : \A b \in S : a <= b
         IN  <<m>> \o SortedIds(S \ {m})

\* for state in layers.values_mut() { ... }
RECURSIVE plan_layers(_, _, _, _, _, _)
plan_layers(map, ids, ops, t, sh, dev_width) ==
    IF ids = <<>>
    THEN [layers |-> map, render_ops |-> ops]
    ELSE LET r == plan_layer(map[Head(ids)], t, sh, dev_width)
         IN  plan_layers([map EXCEPT ![Head(ids)] = r.state], Tail(ids),
                         ops \o r.ops, t, sh, dev_width)

\* for i in 0..=dupes { screen.blit(&bitmap, x + i * scroll_w, y, false) }
RECURSIVE blit_copies(_, _, _)
blit_copies(scr, op, i) ==
    IF i > op.dupes THEN scr
    ELSE blit_copies(blit(scr, op.bitmap, op.x + i * op.scroll_w, op.y, FALSE),
                     op, i + 1)

\* for op in render_ops { ... }
RECURSIVE run_render_ops(_, _)
run_render_ops(scr, ops) ==
    IF ops = <<>> THEN scr
    ELSE LET op == Head(ops)
         IN  run_render_ops(IF op.op = "Blit"
                            THEN blit(scr, op.bitmap, op.x, op.y, FALSE)
                            ELSE blit_copies(scr, op, 0),
                            Tail(ops))

(***************************************************************************)
(* The draw report: a bitmap placed on the screen is clipped, split into   *)
(* chunks of up to 64 columns and each chunk encoded column by column.     *)
(***************************************************************************)
div_ceil(a, b) == (a + b - 1) \div b

\* x.max(0).min(screen_w as isize)
clamp_to_screen_NoMin(v, size) == Max(v, 0)

clamp_to_screen(v, size) == Min(Max(v, 0), size)

ReportDrawableSpec(w, h, dst_x, dst_y, src_x, src_y) ==
    [w |-> w, h |-> h, dst_x |-> dst_x, dst_y |-> dst_y,
     src_x |-> src_x, src_y |-> src_y]

prepare_drawables_for_report(bitmap, x, y, screen_w, screen_h) ==
    LET dst_x_start == clamp_to_screen(x, screen_w)
        dst_y_start == clamp_to_screen(y, screen_h)
        dst_x_end == clamp_to_screen(x + bitmap.w, screen_w)
        dst_y_end == clamp_to_screen(y + bitmap.h, screen_h)
        w == dst_x_end - dst_x_start
        h == dst_y_end - dst_y_start
        src_x == dst_x_start - x
        src_y == dst_y_start - y
        splits == div_ceil(w, SCREEN_REPORT_SPLIT_SZ)
    IN  IF dst_x_start >= dst_x_end \/ dst_y_start >= dst_y_end
        THEN <<>>
        ELSE [k \in 1 .. splits |->
                 LET i == k - 1
                 IN  ReportDrawableSpec(
                         Min(SCREEN_REPORT_SPLIT_SZ, w - i * SCREEN_REPORT_SPLIT_SZ),
                         h,
                         dst_x_start + i * SCREEN_REPORT_SPLIT_SZ,
                         dst_y_start,
                         src_x + i * SCREEN_REPORT_SPLIT_SZ,
                         src_y)]

\* let stride_h = (d.dst_y.wrapping_rem(8) + d.h).div_ceil(8) * 8
stride_h(d) == div_ceil((d.dst_y % 8) + d.h, 8) * 8
\* let ri = x * stride_h + y: the payload bit of pixel (x, y) of the chunk
report_bit_RowMajor(d, x, y) == y * d.w + x

report_bit(d, x, y) == x * stride_h(d) + y
\* let report_i = (ri / 8) + 6: the byte of the report it lies in
report_index(d, x, y) == (report_bit(d, x, y) \div 8) + 6
\* let pi = (d.src_y + y) * bitmap.w + (d.src_x + x)
pixel_index(bitmap, d, x, y) == (d.src_y + y) * bitmap.w + (d.src_x + x)

\* A DrawReport is held as its first six bytes and the set of the bits that
\* are set in the bytes after them, each as <<index of the byte, bit>>.
\* report[report_i] |= bit << k
or_bit(bits, report_i, bit, k) ==
    IF bit = 1 THEN bits \cup {<<report_i, k>>} ELSE bits

\* the body of the two loops for pixel n of the chunk, n = y * d.w + x; an
\* index out of range panics
encode_pixel(report, bitmap, d, n) ==
    LET y == n \div d.w
        x == n % d.w
        report_i == report_index(d, x, y)
        pi == pixel_index(bitmap, d, x, y)
    IN  IF report_i >= SCREEN_REPORT_SIZE \/ pi >= bitmap.w * bitmap.h
        THEN [report EXCEPT !.panic = TRUE]
        ELSE [report EXCEPT !.bits = or_bit(@, report_i,
                                            IF pi \in bitmap.data THEN 1 ELSE 0,
                                            report_bit(d, x, y) % 8)]

\* for y in 0..d.h { for x in 0..d.w { .. } }: pixels lo .. hi - 1 in the
\* order of the loops, the first half before the second; a panic ends it
RECURSIVE encode_pixels(_, _, _, _, _)
encode_pixels(report, bitmap, d, lo, hi) ==
    IF hi <= lo THEN report
    ELSE IF hi = lo + 1 THEN encode_pixel(report, bitmap, d, lo)
    ELSE LET mid == (lo + hi) \div 2
             first == encode_pixels(report, bitmap, d, lo, mid)
         IN  IF first.panic THEN first
             ELSE encode_pixels(first, bitmap, d, mid, hi)

\* report[0] = 0x06 .. report[5] = d.h as u8, then the pixels
create_report_for_drawable(bitmap, d) ==
    encode_pixels(
        [panic |-> FALSE,
         header |-> <<6, 147, d.dst_x % 256, d.dst_y % 256, d.w % 256, d.h % 256>>,
         bits |-> {}],
        bitmap, d, 0, d.w * d.h)

(***************************************************************************)
(* Device: the calls the worker makes and what they answer.  A call that   *)
(* reaches the hardware succeeds or fails as the environment decides       *)
(* (`ok`); a failure uses up one of the faults the environment may inject. *)
(***************************************************************************)
\* let mut report = [0; 64]; report[0] = ..; report[1] = ..; report[2] = ..
Report64(head) == [k \in 1 .. 64 |-> IF k <= Len(head) THEN head[k] ELSE 0]

set_volume_Unchecked(value, ok) ==
    [ok |-> ok, wrote |-> TRUE,
     report |-> Report64(<<6, 37, saturating_sub(BASE_STATION_VOLUME_MAX, value)>>)]

\* Device::set_volume: the range check, then the 64-byte report is written
set_volume(value, ok) ==
    IF value > BASE_STATION_VOLUME_MAX
    THEN [ok |-> FALSE, wrote |-> FALSE, report |-> <<>>]
    ELSE [ok |-> ok, wrote |-> TRUE,
          report |-> Report64(<<6, 37,
                                saturating_sub(BASE_STATION_VOLUME_MAX, value)>>)]

\* Device::set_brightness: the two range checks, then the report is written
set_brightness(value, ok) ==
    IF value < 1
    THEN [ok |-> FALSE, wrote |-> FALSE, report |-> <<>>]
    ELSE IF value > 10
         THEN [ok |-> FALSE, wrote |-> FALSE, report |-> <<>>]
         ELSE [ok |-> ok, wrote |-> TRUE, report |-> Report64(<<6, 133, value>>)]

\* Device::retry_report: if i == 10 { return Err(..) }
RetryGivesUp(i) == i = 10

\* spin_sleep::sleep(Duration::from_millis(i.pow(2))), in milliseconds
RetrySleep_Linear(i) == i

RetrySleep(i) == i * i

Outcomes == IF faults > 0 THEN {TRUE, FALSE} ELSE {TRUE}
NoIo == [call |-> "none", ok |-> TRUE]
Io(call, ok) == [call |-> call, ok |-> ok]

DeviceDisconnected == [ev |-> "DeviceDisconnected", data |-> None]
DeviceReconnected == [ev |-> "DeviceReconnected", data |-> None]
DeviceEvent(e) == [ev |-> "DeviceEvent", data |-> Some(e)]
\* the input report 07 25 30 .. parsed by Device::parse_event
VolumeEvent == [kind |-> "Volume", volume |-> 8]

parse_event_NoReportId(buf) ==
    CASE buf[2] = 37 ->
           Some([kind |-> "Volume",
                 volume |-> saturating_sub(BASE_STATION_VOLUME_MAX, buf[3])])
      [] buf[2] = 181 ->
           Some([kind |-> "HeadsetConnection", wireless |-> buf[5] = 8,
                 bluetooth |-> buf[4] = 1, bluetooth_on |-> buf[3] = 4])
      [] buf[2] = 183 ->
           Some([kind |-> "Battery", headset |-> buf[3], charging |-> buf[4]])
      [] OTHER -> None

\* Device::parse_event on the first five bytes of a 64-byte input report
\* (buf[k] of the code is buf[k + 1] here)
parse_event(buf) ==
    IF buf[1] # 7 THEN None
    ELSE CASE buf[2] = 37 ->
                Some([kind |-> "Volume",
                      volume |-> saturating_sub(BASE_STATION_VOLUME_MAX, buf[3])])
           [] buf[2] = 181 ->
                Some([kind |-> "HeadsetConnection", wireless |-> buf[5] = 8,
                      bluetooth |-> buf[4] = 1, bluetooth_on |-> buf[3] = 4])
           [] buf[2] = 183 ->
                Some([kind |-> "Battery", headset |-> buf[3], charging |-> buf[4]])
           [] OTHER -> None

\* Device::get_events over the reports the reads return, when no read fails:
\* the events of those that parse
RECURSIVE get_events_Reversed(_)
get_events_Reversed(reports) ==
    IF reports = <<>> THEN <<>>
    ELSE get_events_Reversed(Tail(reports)) \o parse_event(Head(reports))

RECURSIVE get_events(_)
get_events(reports) ==
    IF reports = <<>> THEN <<>>
    ELSE parse_event(Head(reports)) \o get_events(Tail(reports))

Cmd(c, a) == [cmd |-> c, arg |-> a]

\* no Device call is running: `calls` lists the reports the running call
\* handed to the HID handle, each with whether the handle accepted it
HidIdle ==
    [op |-> "idle", call |-> "none", arg |-> 0, reports |-> <<>>, idx |-> 0,
     i |-> 0, slept |-> <<>>, calls |-> <<>>, result |-> "none", value |-> <<>>]

(***************************************************************************)
(* The worker: run_draw_device_thread, one action per block of its loop.   *)
(***************************************************************************)
workerLocals == <<time, stop_after_frame, playing, oled_shift, last_shift, shift_mode,
                  connected, last_connect_attempt, last_frame_time, prev_screen,
                  shift, render_ops, screen, frame_time>>
clientVars == <<layer_counter, cpc, txn, issued, play_at>>

\* let time = Instant::now(); let mut stop_after_frame = false;
LoopTop ==
    /\ pc = "top"
    /\ time' = now
    /\ stop_after_frame' = FALSE
    /\ pc' = "drain"
    /\ io' = NoIo
    /\ UNCHANGED <<layers, mutex, cmd_queue, event_queue, clientVars, playing,
                   oled_shift, last_shift, shift_mode, connected,
                   last_connect_attempt, last_frame_time, prev_screen, shift,
                   render_ops, screen, frame_time, now, iter, faults, pending, forced_seen,
                   received, hid, device>>

\* if connected && dev.set_volume(volume).is_err(): whether set_volume is called
SetVolumeCalls_Always(c) == TRUE
SetVolumeCalls(c) == c

\* dev.set_volume(volume).is_err()
is_err_WriteOnly(r) == r.wrote /\ ~r.ok
is_err(r) == ~r.ok

\* one turn of: while let Ok(cmd) = cmd_receiver.try_recv() { match cmd ... }
\* cmd_receiver.try_recv(): the command taken and the queue left
try_recv_Newest(queue) ==
    [cmd |-> queue[Len(queue)], rest |-> SubSeq(queue, 1, Len(queue) - 1)]

try_recv(queue) == [cmd |-> Head(queue), rest |-> Tail(queue)]

DrainCmd ==
    /\ pc = "drain"
    /\ IF cmd_queue = <<>>
       THEN /\ pc' = "reconnect"
            /\ io' = NoIo
            /\ UNCHANGED <<cmd_queue, event_queue, stop_after_frame, playing,
                           shift_mode, connected, faults>>
       ELSE LET cmd == try_recv(cmd_queue).cmd
                calls == cmd.cmd = "SetVolume" /\ SetVolumeCalls(connected)
            IN  \E ok \in (IF calls /\ cmd.arg <= BASE_STATION_VOLUME_MAX
                           THEN Outcomes ELSE {TRUE}) :
                    LET r == set_volume(cmd.arg, ok)
                        failed == calls /\ is_err(r)
                    IN  /\ cmd_queue' = try_recv(cmd_queue).rest
                        /\ pc' = "drain"
                        /\ playing' = CASE cmd.cmd = "Play" -> TRUE
                                        [] cmd.cmd = "Pause" -> FALSE
                                        [] OTHER -> playing
                        /\ shift_mode' = IF cmd.cmd = "SetShiftMode"
                                         THEN (IF cmd.arg = 1 THEN "Simple" ELSE "Off")
                                         ELSE shift_mode
                        /\ stop_after_frame' = (stop_after_frame \/ cmd.cmd = "Stop")
                        /\ connected' = (connected /\ ~failed)
                        /\ event_queue' = IF failed
                                          THEN Append(event_queue, DeviceDisconnected)
                                          ELSE event_queue
                        /\ faults' = IF calls /\ r.wrote /\ ~r.ok
                                     THEN faults - 1 ELSE faults
                        /\ io' = IF calls THEN Io("set_volume", r.ok) ELSE NoIo
    /\ UNCHANGED <<layers, mutex, clientVars, time, oled_shift, last_shift,
                   last_connect_attempt, last_frame_time, prev_screen, shift,
                   render_ops, screen, frame_time, now, iter, pending,
                   forced_seen, received, hid, device>>

\* if !connected && time.duration_since(last_connect_attempt) >= RECONNECT_PERIOD
ReconnectDue_NoWait(c, t, last) == ~c
ReconnectDue(c, t, last) == ~c /\ duration_since(t, last) >= RECONNECT_PERIOD

Reconnect ==
    /\ pc = "reconnect"
    /\ LET due == ReconnectDue(connected, time, last_connect_attempt)
       IN  \E ok \in (IF due THEN Outcomes ELSE {TRUE}) :
               /\ last_connect_attempt' = IF due THEN time ELSE last_connect_attempt
               /\ connected' = IF due THEN ok ELSE connected
               /\ event_queue' = IF due /\ ok
                                 THEN Append(event_queue, DeviceReconnected)
                                 ELSE event_queue
               /\ faults' = IF due /\ ~ok THEN faults - 1 ELSE faults
               /\ io' = IF due THEN Io("reconnect", ok) ELSE NoIo
    /\ pc' = "render"
    /\ UNCHANGED <<layers, mutex, cmd_queue, clientVars, time, stop_after_frame,
                   playing, oled_shift, last_shift, shift_mode, last_frame_time,
                   prev_screen, shift, render_ops, screen, frame_time, now, iter,
                   pending, forced_seen, received, hid, device>>

\* if connected && playing
RenderEnabled_PlayingOnly(c, p) == p
RenderEnabled_ConnectedOnly(c, p) == c
RenderEnabled(c, p) == c /\ p

\* the match over shift_mode: the new oled_shift and last_shift, and the shift
ShiftDue_Early(t, last) == duration_since(t, last) >= OLED_SHIFT_PERIOD - 1
ShiftDue(t, last) == duration_since(t, last) >= OLED_SHIFT_PERIOD

oled_shift_step(mode, idx, last, t) ==
    IF mode = "Off"
    THEN [oled_shift |-> idx, last_shift |-> last, shift |-> <<0, 0>>]
    ELSE LET due == ShiftDue(t, last)
             i == IF due THEN (idx + 1) % Len(OLED_SHIFTS) ELSE idx
         IN  [oled_shift |-> i, last_shift |-> IF due THEN t ELSE last,
              shift |-> OLED_SHIFTS[i + 1]]

RenderGate ==
    /\ pc = "render"
    /\ IF RenderEnabled(connected, playing)
       THEN LET r == oled_shift_step(shift_mode, oled_shift, last_shift, time)
            IN  /\ oled_shift' = r.oled_shift
                /\ last_shift' = r.last_shift
                /\ shift' = r.shift
                /\ pc' = "lock"
       ELSE /\ pc' = "events"
            /\ UNCHANGED <<oled_shift, last_shift, shift>>
    /\ io' = NoIo
    /\ UNCHANGED <<layers, mutex, cmd_queue, event_queue, clientVars, time,
                   stop_after_frame, playing, shift_mode, connected,
                   last_connect_attempt, last_frame_time, prev_screen, render_ops,
                   screen, frame_time, now, iter, faults, pending,
                   forced_seen, received, hid, device>>

\* let mut layers = layers.lock().unwrap();
WorkerLock ==
    /\ pc = "lock"
    /\ mutex = "none"
    /\ mutex' = "worker"
    /\ pc' = "plan"
    /\ io' = NoIo
    /\ UNCHANGED <<layers, cmd_queue, event_queue, clientVars, workerLocals, now,
                   iter, faults, pending, forced_seen, received, hid, device>>

\* the holder of the mutex once the block that planned the ops has closed
MutexAfterPlan_Held == "worker"
MutexAfterPlan == "none"

\* the body of the critical section; the guard is dropped at its end
Plan ==
    /\ pc = "plan"
    /\ LET r == plan_layers(layers, SortedIds(DOMAIN layers), <<>>, time, shift,
                            DEVICE_WIDTH)
       IN  /\ layers' = r.layers
           /\ render_ops' = r.render_ops
    /\ mutex' = MutexAfterPlan
    /\ pc' = "compose"
    /\ io' = NoIo
    /\ UNCHANGED <<cmd_queue, event_queue, clientVars, time, stop_after_frame,
                   playing, oled_shift, last_shift, shift_mode, connected,
                   last_connect_attempt, last_frame_time, prev_screen, shift,
                   screen, frame_time, now, iter, faults, pending, forced_seen,
                   received, hid, device>>

\* let mut screen = Bitmap::new(..); for op in render_ops {..};
\* let frame_time = Instant::now();   (composing took d units)
Compose(delays) ==
    /\ pc = "compose"
    /\ screen' = run_render_ops(Bitmap_new(DEVICE_WIDTH, DEVICE_HEIGHT, FALSE),
                                render_ops)
    /\ \E d \in delays :
           /\ now' = now + d
           /\ frame_time' = now + d
    /\ pc' = "present"
    /\ io' = NoIo
    /\ UNCHANGED <<layers, mutex, cmd_queue, event_queue, clientVars, time,
                   stop_after_frame, playing, oled_shift, last_shift, shift_mode,
                   connected, last_connect_attempt, last_frame_time, prev_screen,
                   shift, render_ops, iter, faults, pending, forced_seen,
                   received, hid, device>>

\* let force_redraw = frame_time.duration_since(last_frame_time) >= 1 s
ForceRedraw_Never(ft, last) == FALSE
ForceRedraw(ft, last) == duration_since(ft, last) >= FORCE_REDRAW_PERIOD
\* if screen != prev_screen || force_redraw
NeedsDraw_ForcedOnly(scr, prev, force) == force
NeedsDraw(scr, prev, force) == scr # prev \/ force

Present ==
    /\ pc = "present"
    /\ LET force_redraw == ForceRedraw(frame_time, last_frame_time)
           draws == NeedsDraw(screen, prev_screen, force_redraw)
       IN  \E ok \in (IF draws THEN Outcomes ELSE {TRUE}) :
               /\ last_frame_time' = IF draws THEN frame_time ELSE last_frame_time
               /\ prev_screen' = IF draws /\ ok THEN screen ELSE prev_screen
               /\ connected' = IF draws /\ ~ok THEN FALSE ELSE connected
               /\ event_queue' = IF draws /\ ~ok /\ connected
                                 THEN Append(event_queue, DeviceDisconnected)
                                 ELSE event_queue
               /\ faults' = IF draws /\ ~ok THEN faults - 1 ELSE faults
               /\ io' = IF draws THEN Io("draw", ok) ELSE NoIo
               /\ forced_seen' = (forced_seen
                                  \/ (is_some(play_at) /\ draws /\ ok /\ force_redraw))
    /\ pc' = "events"
    /\ UNCHANGED <<layers, mutex, cmd_queue, clientVars, time, stop_after_frame,
                   playing, oled_shift, last_shift, shift_mode,
                   last_connect_attempt, shift, render_ops, screen, frame_time,
                   now, iter, pending, received, hid, device>>

\* dev.get_events().unwrap_or_else(|_| { ..; vec![] }): the events the
\* worker goes on to forward
unwrap_or_else_KeepParsed(ok, events) == events
unwrap_or_else(ok, events) == IF ok THEN events ELSE <<>>

\* if connected { .. dev.get_events() .. }
GetEventsDue_Always(c) == TRUE
GetEventsDue(c) == c

\* if connected { let events = dev.get_events().unwrap_or_else(..); .. }
\* n reports are read before the read that ends the call (empty, or an error)
GetEvents ==
    /\ pc = "events"
    /\ IF GetEventsDue(connected)
       THEN \E n \in 0 .. Len(pending) : \E ok \in Outcomes :
                /\ pending' = SubSeq(pending, n + 1, Len(pending))
                /\ connected' = ok
                /\ event_queue' =
                       LET events == unwrap_or_else(ok, get_events(SubSeq(pending, 1, n)))
                       IN  (IF ok THEN event_queue
                                  ELSE Append(event_queue, DeviceDisconnected))
                           \o [i \in 1 .. Len(events) |-> DeviceEvent(events[i])]
                /\ faults' = IF ok THEN faults ELSE faults - 1
                /\ io' = Io("get_events", ok)
       ELSE /\ io' = NoIo
            /\ UNCHANGED <<pending, connected, event_queue, faults>>
    /\ pc' = "end"
    /\ UNCHANGED <<layers, mutex, cmd_queue, clientVars, time, stop_after_frame,
                   playing, oled_shift, last_shift, shift_mode,
                   last_connect_attempt, last_frame_time, prev_screen, shift,
                   render_ops, screen, frame_time, now, iter, forced_seen,
                   received, hid, device>>

\* if stop_after_frame { break; }
BreakAfterFrame_Never(stopping) == FALSE

BreakAfterFrame(stopping) == stopping

\* spin_sleep::sleep(frame_delay.saturating_sub(frame_duration));
\* the sleep overshoots by g units; the worker starts at most maxTicks more ticks
EndOfIteration(overshoots, maxTicks) ==
    /\ pc = "end"
    /\ IF BreakAfterFrame(stop_after_frame)
       THEN /\ pc' = "done"
            /\ UNCHANGED <<now, iter>>
       ELSE /\ iter < maxTicks
            /\ \E g \in overshoots :
                   now' = now + saturating_sub(frame_delay, duration_since(now, time)) + g
            /\ iter' = iter + 1
            /\ pc' = "top"
    /\ io' = NoIo
    /\ UNCHANGED <<layers, mutex, cmd_queue, event_queue, clientVars, workerLocals,
                   faults, pending, forced_seen, received, hid, device>>

(***************************************************************************)
(* The client: DrawDevice and LayerTxn.                                    *)
(***************************************************************************)
AddLayer(layer) == [op |-> "add_layer", layer |-> layer]
RemoveLayer(id) == [op |-> "remove_layer", id |-> id]
RemoveLayers(ids) == [op |-> "remove_layers", ids |-> ids]
ClearLayers == [op |-> "clear_layers"]
\* add_text_with_mode; bitmaps and line_height are the text renderer's result
AddText(bitmaps, line_height, x, y, do_shift, mode) ==
    [op |-> "add_text", bitmaps |-> bitmaps, line_height |-> line_height,
     x |-> x, y |-> y, do_shift |-> do_shift, mode |-> mode]

\* how many layers the edit adds
EditAdds(e) == CASE e.op = "add_layer" -> 1
                 [] e.op = "add_text" -> Len(e.bitmaps)
                 [] OTHER -> 0

\* the edit on the locked store: the new counter, the new map, the ids returned
ApplyEdit(e, counter, map, t) ==
    CASE e.op = "add_layer" -> add_layer_to_map(counter, map, e.layer, t)
      [] e.op = "remove_layer" ->
           [layer_counter |-> counter, layers |-> MapRemove(map, {e.id}), ids |-> <<>>]
      [] e.op = "remove_layers" ->
           [layer_counter |-> counter,
            layers |-> MapRemove(map, {e.ids[i] : i \in 1 .. Len(e.ids)}),
            ids |-> <<>>]
      [] e.op = "clear_layers" ->
           [layer_counter |-> counter, layers |-> EmptyMap, ids |-> <<>>]
      [] e.op = "add_text" ->
           add_text_layers(DEVICE_WIDTH, DEVICE_HEIGHT, counter, map, e.bitmaps,
                           e.line_height, e.x, e.y, e.do_shift, e.mode, t)

\* add_layer, remove_layer, remove_layers, clear_layers, add_text*: each takes
\* the lock, edits and releases it before it returns
ClientEdit(edits, maxId) ==
    /\ cpc = "idle"
    /\ mutex = "none"
    /\ \E e \in edits :
           /\ layer_counter + EditAdds(e) <= maxId
           /\ LET r == ApplyEdit(e, layer_counter, layers, now)
              IN  /\ layers' = r.layers
                  /\ layer_counter' = r.layer_counter
                  /\ issued' = issued \o r.ids
    /\ io' = NoIo
    /\ UNCHANGED <<mutex, cmd_queue, event_queue, cpc, txn, pc, workerLocals, now,
                   iter, faults, pending, play_at, forced_seen, received, hid, device>>

\* the holder of the mutex while transact_layers runs f: the guard lives in txn
TxnHolds_Released == "none"
TxnHolds == "client"

\* transact_layers: lock, then f makes `total` edits through the LayerTxn
TxnBegin(maxOps) ==
    /\ cpc = "idle"
    /\ mutex = "none"
    /\ mutex' = TxnHolds
    /\ cpc' = "txn"
    /\ \E n \in 1 .. maxOps : txn' = [applied |-> 0, total |-> n]
    /\ io' = NoIo
    /\ UNCHANGED <<layers, cmd_queue, event_queue, layer_counter, issued, play_at,
                   pc, workerLocals, now, iter, faults, pending, forced_seen,
                   received, hid, device>>

\* one LayerTxn call made by f
TxnEdit(edits, maxId) ==
    /\ cpc = "txn"
    /\ txn.applied < txn.total
    /\ \E e \in edits :
           /\ layer_counter + EditAdds(e) <= maxId
           /\ LET r == ApplyEdit(e, layer_counter, layers, now)
              IN  /\ layers' = r.layers
                  /\ layer_counter' = r.layer_counter
                  /\ issued' = issued \o r.ids
    /\ txn' = [txn EXCEPT !.applied = txn.applied + 1]
    /\ io' = NoIo
    /\ UNCHANGED <<mutex, cmd_queue, event_queue, cpc, pc, workerLocals, now, iter,
                   faults, pending, play_at, forced_seen, received, hid, device>>

\* f returns: txn and with it the MutexGuard are dropped
TxnEnd ==
    /\ cpc = "txn"
    /\ txn.applied = txn.total
    /\ mutex' = "none"
    /\ cpc' = "idle"
    /\ txn' = [applied |-> 0, total |-> 0]
    /\ io' = NoIo
    /\ UNCHANGED <<layers, cmd_queue, event_queue, layer_counter, issued, play_at,
                   pc, workerLocals, now, iter, faults, pending, forced_seen,
                   received, hid, device>>

\* self.layers.lock() of add_layer, remove_layer(s), clear_layers, add_text*
\* and transact_layers: the call has begun and waits for the layer store
ClientLock ==
    /\ cpc = "idle"
    /\ cpc' = "locking"
    /\ io' = NoIo
    /\ UNCHANGED <<layers, mutex, cmd_queue, event_queue, layer_counter, txn, issued,
                   play_at, pc, workerLocals, now, iter, faults, pending,
                   forced_seen, received, hid, device>>

\* lock() returns to a single edit: the edit is made, the guard dropped and
\* the call returns
ClientLockedEdit(edits, maxId) ==
    /\ cpc = "locking"
    /\ mutex = "none"
    /\ \E e \in edits :
           /\ layer_counter + EditAdds(e) <= maxId
           /\ LET r == ApplyEdit(e, layer_counter, layers, now)
              IN  /\ layers' = r.layers
                  /\ layer_counter' = r.layer_counter
                  /\ issued' = issued \o r.ids
    /\ cpc' = "idle"
    /\ io' = NoIo
    /\ UNCHANGED <<mutex, cmd_queue, event_queue, txn, pc, workerLocals, now,
                   iter, faults, pending, play_at, forced_seen, received, hid, device>>

\* lock() returns to transact_layers: the guard moves into the LayerTxn
ClientLockedTxn(maxOps) ==
    /\ cpc = "locking"
    /\ mutex = "none"
    /\ mutex' = TxnHolds
    /\ cpc' = "txn"
    /\ \E n \in 1 .. maxOps : txn' = [applied |-> 0, total |-> n]
    /\ io' = NoIo
    /\ UNCHANGED <<layers, cmd_queue, event_queue, layer_counter, issued, play_at,
                   pc, workerLocals, now, iter, faults, pending, forced_seen,
                   received, hid, device>>

\* play, pause, set_shift_mode, set_volume: one send on the command channel
\* at most maxQueue commands are waiting at any time
SendCommandUpTo(cmds, observe, maxQueue) ==
    /\ cpc = "idle"
    /\ Len(cmd_queue) < maxQueue
    /\ \E c \in cmds :
           /\ cmd_queue' = Append(cmd_queue, c)
           /\ play_at' = IF observe /\ c.cmd = "Play" /\ ~is_some(play_at)
                         THEN Some(now) ELSE play_at
    /\ io' = NoIo
    /\ UNCHANGED <<layers, mutex, event_queue, layer_counter, cpc, txn, issued, pc,
                   workerLocals, now, iter, faults, pending, forced_seen,
                   received, hid, device>>

SendCommand(cmds, observe) == SendCommandUpTo(cmds, observe, MaxQueue)

\* try_event, when an event is waiting
TryEvent ==
    /\ cpc = "idle"
    /\ event_queue # <<>>
    /\ event_queue' = Tail(event_queue)
    /\ received' = Append(received, Head(event_queue))
    /\ io' = NoIo
    /\ UNCHANGED <<layers, mutex, cmd_queue, clientVars, pc, workerLocals, now,
                   iter, faults, pending, forced_seen, hid, device>>

\* destroy: self.cmd_sender.send(DrawCommand::Stop), then thread.join()
Stop ==
    /\ cpc = "idle"
    /\ cmd_queue' = Append(cmd_queue, Cmd("Stop", 0))
    /\ cpc' = "joining"
    /\ io' = NoIo
    /\ UNCHANGED <<layers, mutex, event_queue, layer_counter, txn, issued, play_at,
                   pc, workerLocals, now, iter, faults, pending, forced_seen,
                   received, hid, device>>

Join ==
    /\ cpc = "joining"
    /\ pc = "done"
    /\ cpc' = "stopped"
    /\ io' = NoIo
    /\ UNCHANGED <<layers, mutex, cmd_queue, event_queue, layer_counter, txn, issued,
                   play_at, pc, workerLocals, now, iter, faults, pending, forced_seen,
                   received, hid, device>>

\* if let Some(thread) = self.thread.take(): the thread is there until the
\* first destroy has taken it
ThreadIsSome_Always(c) == TRUE
ThreadIsSome(c) == c \in {"idle", "txn"}

\* the DrawDevice goes out of scope, at the end of stop() or after the
\* destroy of a plain drop: Drop::drop calls destroy again, which finds no
\* thread; then the fields are dropped, the Sender and the Receiver with them
Drop ==
    /\ cpc = "stopped"
    /\ cmd_queue' = IF ThreadIsSome(cpc) THEN Append(cmd_queue, Cmd("Stop", 0))
                    ELSE cmd_queue
    /\ cpc' = "dropped"
    /\ io' = NoIo
    /\ UNCHANGED <<layers, mutex, event_queue, layer_counter, txn, issued, play_at,
                   pc, workerLocals, now, iter, faults, pending, forced_seen,
                   received, hid, device>>

(***************************************************************************)
(* Device used on its own (ggoled_lib): draw with its retries, set_volume  *)
(* and set_brightness.  The HID handle accepts or refuses each report as   *)
(* the environment decides.                                                *)
(***************************************************************************)
\* The Device struct (oled_dev, info_dev, info_blocking_mode) over the HID
\* layer: endpoints are numbered as they are opened, `open` are those not
\* yet closed, `blocking` is the mode the info endpoint is really in (an
\* endpoint is opened blocking), `mode_set` the last mode set on it with
\* success, and `log` the calls the last Device call made on it.
DeviceOf(oled, info, opened, open) ==
    [oled_dev |-> oled, info_dev |-> info, info_blocking_mode |-> None,
     opened |-> opened, open |-> open, blocking |-> TRUE, mode_set |-> None,
     log |-> <<>>]

\* the Device that connect() returned to the program at the start
FirstDevice == DeviceOf(1, Some(2), 2, {1, 2})

\* Device::connect called while `dev` exists: an error, or a Device on
\* endpoints opened now; the endpoints of `dev` are still open
connect(dev, ok, with_info) ==
    IF ~ok
    THEN [ok |-> FALSE, device |-> dev]
    ELSE LET oled == dev.opened + 1
             info == IF with_info THEN Some(dev.opened + 2) ELSE None
             fresh == {oled} \cup {info[i] : i \in 1 .. Len(info)}
         IN  [ok |-> TRUE,
              device |-> DeviceOf(oled, info, dev.opened + Len(info) + 1,
                                  dev.open \cup fresh)]

\* *self = Self::connect()?: on Ok the old value is dropped, which closes
\* its endpoints; on Err the `?` returns before the assignment
reconnect_ReplacesOnErr(dev, r) ==
    IF r.ok THEN [r.device EXCEPT !.open = @ \ ({dev.oled_dev} \cup
                                      {dev.info_dev[i] : i \in 1 .. Len(dev.info_dev)})]
    ELSE DeviceOf(0, None, dev.opened, {})
reconnect(dev, r) ==
    IF r.ok
    THEN [r.device EXCEPT !.open = @ \ ({dev.oled_dev} \cup
                              {dev.info_dev[i] : i \in 1 .. Len(dev.info_dev)})]
    ELSE dev

\* if self.info_blocking_mode != Some(blocking)
ModeCallNeeded_Always(current, blocking) == TRUE
ModeCallNeeded(current, blocking) == current # Some(blocking)

\* Device::set_info_blocking_mode; mode_ok is the result of
\* set_blocking_mode should it be called
set_info_blocking_mode(dev, blocking, mode_ok) ==
    IF dev.info_dev = None
    THEN [ok |-> TRUE, device |-> dev]
    ELSE IF ModeCallNeeded(dev.info_blocking_mode, blocking)
    THEN LET called == Append(dev.log, [op |-> "set_blocking_mode",
                                         blocking |-> blocking, ok |-> mode_ok])
         IN  IF mode_ok
             THEN [ok |-> TRUE,
                   device |-> [dev EXCEPT !.log = called,
                                          !.blocking = blocking,
                                          !.mode_set = Some(blocking),
                                          !.info_blocking_mode = Some(blocking)]]
             ELSE [ok |-> FALSE, device |-> [dev EXCEPT !.log = called]]
    ELSE [ok |-> TRUE, device |-> dev]

\* info_dev.read(&mut buf): logged with the mode the endpoint is in
ReadLog(dev, ok) == [op |-> "read", blocking |-> dev.blocking, ok |-> ok]

\* Device::get_events: n reads return a report, then a read returns 0 bytes
\* (read_ok) or fails; the value is the number of reports read on Ok
device_get_events(dev0, mode_ok, n, read_ok) ==
    LET dev == [dev0 EXCEPT !.log = <<>>]
    IN  IF dev.info_dev = None
        THEN [ok |-> TRUE, value |-> <<0>>, device |-> dev]
        ELSE LET m == set_info_blocking_mode(dev, FALSE, mode_ok)
             IN  IF ~m.ok
                 THEN [ok |-> FALSE, value |-> <<>>, device |-> m.device]
                 ELSE [ok |-> read_ok,
                       value |-> IF read_ok THEN <<n>> ELSE <<>>,
                       device |-> [m.device EXCEPT
                                      !.log = @ \o [k \in 1 .. n + 1 |->
                                                       ReadLog(m.device, k <= n \/ read_ok)]]]

\* Device::poll_event; the value is the number of reports read on Ok
poll_event(dev0, mode_ok, read_ok) ==
    LET dev == [dev0 EXCEPT !.log = <<>>]
    IN  IF dev.info_dev = None
        THEN [ok |-> TRUE, value |-> <<0>>, device |-> dev]
        ELSE LET m == set_info_blocking_mode(dev, TRUE, mode_ok)
             IN  IF ~m.ok
                 THEN [ok |-> FALSE, value |-> <<>>, device |-> m.device]
                 ELSE [ok |-> read_ok,
                       value |-> IF read_ok THEN <<1>> ELSE <<>>,
                       device |-> [m.device EXCEPT
                                      !.log = Append(@, ReadLog(m.device, read_ok))]]

drawVars == <<layers, mutex, cmd_queue, event_queue, clientVars, pc, workerLocals,
              now, iter, faults, pending, io, forced_seen, received>>

\* Device::draw: prepare_for_report gives n drawables, report k is made of
\* the k-th
DeviceDraw(maxReports) ==
    /\ hid.op = "idle"
    /\ \E n \in 0 .. maxReports :
           hid' = [HidIdle EXCEPT !.op = "draw", !.call = "draw",
                                  !.reports = [k \in 1 .. n |-> <<"draw", k>>],
                                  !.idx = 1]
    /\ UNCHANGED <<drawVars, device>>

\* for drawable in drawables { .. self.retry_report(&report)?; } Ok(())
NextDrawable ==
    /\ hid.op = "draw"
    /\ hid' = IF hid.idx > Len(hid.reports)
              THEN [hid EXCEPT !.op = "returned", !.result = "ok"]
              ELSE [hid EXCEPT !.op = "retry", !.i = 0, !.slept = <<>>]
    /\ UNCHANGED <<drawVars, device>>

\* one turn of the loop of retry_report: the send, then return or sleep
SendFeatureReport ==
    /\ hid.op = "retry"
    /\ \E ok \in BOOLEAN :
           LET sent == Append(hid.calls, [data |-> hid.reports[hid.idx], ok |-> ok])
           IN  hid' = IF ok
                      THEN [hid EXCEPT !.calls = sent, !.op = "draw", !.idx = @ + 1]
                      ELSE IF RetryGivesUp(hid.i)
                           THEN [hid EXCEPT !.calls = sent, !.op = "returned",
                                            !.result = "err"]
                           ELSE [hid EXCEPT !.calls = sent, !.i = @ + 1,
                                            !.slept = Append(@, RetrySleep(hid.i + 1))]
    /\ UNCHANGED <<drawVars, device>>

\* a call of a one-report setter: the result and the write it made, if any
SetterCall(name, value, r) ==
    [HidIdle EXCEPT !.op = "returned", !.call = name, !.arg = value,
                    !.calls = IF r.wrote THEN <<[data |-> r.report, ok |-> r.ok]>>
                              ELSE <<>>,
                    !.result = IF r.ok THEN "ok" ELSE "err"]

DeviceSetVolume ==
    /\ hid.op = "idle"
    /\ \E value \in 0 .. U8_MAX : \E ok \in BOOLEAN :
           hid' = SetterCall("set_volume", value, set_volume(value, ok))
    /\ UNCHANGED <<drawVars, device>>

DeviceSetBrightness ==
    /\ hid.op = "idle"
    /\ \E value \in 0 .. U8_MAX : \E ok \in BOOLEAN :
           hid' = SetterCall("set_brightness", value, set_brightness(value, ok))
    /\ UNCHANGED <<drawVars, device>>

\* Device::parse_event applied to an input report
DeviceParseEvent(ids, commands, bytes) ==
    /\ hid.op = "idle"
    /\ \E b0 \in ids, b1 \in commands, b2 \in 0 .. U8_MAX, b3 \in bytes, b4 \in bytes :
           LET buf == <<b0, b1, b2, b3, b4>>
           IN  hid' = [HidIdle EXCEPT !.op = "returned", !.call = "parse_event",
                                      !.arg = buf, !.value = parse_event(buf)]
    /\ UNCHANGED <<drawVars, device>>

\* Device::prepare_for_report: the split of a w x h bitmap placed at (x, y)
\* on the screen of the device
DevicePrepare(ws, hs, xs, ys) ==
    /\ hid.op = "idle"
    /\ \E w \in ws, h \in hs, x \in xs, y \in ys :
           hid' = [HidIdle EXCEPT
                      !.op = "returned", !.call = "prepare_for_report",
                      !.arg = [w |-> w, h |-> h, x |-> x, y |-> y],
                      !.value = prepare_drawables_for_report(
                                    Bitmap_new(w, h, TRUE), x, y,
                                    DEVICE_WIDTH, DEVICE_HEIGHT)]
    /\ UNCHANGED <<drawVars, device>>

\* Device::draw up to the sends: the drawables of the bitmap placed at
\* (x, y) and the report made of each
DeviceDrawReports(bitmaps, xs, ys) ==
    /\ hid.op = "idle"
    /\ \E bitmap \in bitmaps, x \in xs, y \in ys :
           LET drawables == prepare_drawables_for_report(bitmap, x, y,
                                                         DEVICE_WIDTH, DEVICE_HEIGHT)
           IN  hid' = [HidIdle EXCEPT
                          !.op = "returned", !.call = "create_report",
                          !.arg = [bitmap |-> bitmap, x |-> x, y |-> y],
                          !.value = [k \in 1 .. Len(drawables) |->
                                        [d |-> drawables[k],
                                         report |-> create_report_for_drawable(
                                                        bitmap, drawables[k])]]]
    /\ UNCHANGED <<drawVars, device>>

\* Bitmap::crop on a bitmap and a rectangle
BitmapCrop(bitmaps, coords) ==
    /\ hid.op = "idle"
    /\ \E bitmap \in bitmaps, x \in coords, y \in coords, w \in coords, h \in coords :
           hid' = [HidIdle EXCEPT
                      !.op = "returned", !.call = "crop",
                      !.arg = [bitmap |-> bitmap, x |-> x, y |-> y, w |-> w, h |-> h],
                      !.value = crop(bitmap, x, y, w, h)]
    /\ UNCHANGED <<drawVars, device>>

\* Bitmap::blit of src onto dst at (x, y), built with or without overflow
\* checks; an index outside either bit vector panics
BitmapBlit(dsts, srcs, xs, ys) ==
    /\ hid.op = "idle"
    /\ \E dst \in dsts, src \in srcs, x \in xs, y \in ys,
          opaque \in BOOLEAN, overflow_checks \in BOOLEAN :
           LET cells == blit_cells(dst, src, x, y)
               panics == \/ overflow_checks /\ (neg_overflows(x) \/ neg_overflows(y))
                         \/ \E c \in cells : \/ c.si >= dst.w * dst.h
                                             \/ c.oi >= src.w * src.h
           IN  hid' = [HidIdle EXCEPT
                          !.op = "returned", !.call = "blit",
                          !.arg = [dst |-> dst, src |-> src, x |-> x, y |-> y,
                                   opaque |-> opaque,
                                   overflow_checks |-> overflow_checks],
                          !.value = [panic |-> panics,
                                     cells |-> IF panics THEN {} ELSE cells,
                                     bitmap |-> IF panics THEN dst
                                                ELSE blit(dst, src, x, y, opaque)]]
    /\ UNCHANGED <<drawVars, device>>

\* Device::reconnect: *self = Self::connect()?; Ok(())
\* connect fails, or opens the OLED endpoint alone, or both endpoints
DeviceReconnect(maxHandles) ==
    /\ hid.op = "idle"
    /\ device.opened + 2 <= maxHandles
    /\ \E ok \in BOOLEAN, with_info \in BOOLEAN :
           LET r == connect(device, ok, with_info)
           IN  /\ device' = [reconnect(device, r) EXCEPT !.log = <<>>]
               /\ hid' = [HidIdle EXCEPT !.op = "returned", !.call = "reconnect",
                                         !.result = IF r.ok THEN "ok" ELSE "err"]
    /\ UNCHANGED drawVars

\* Device::get_events on its own: the mode call, then reads that return a
\* report until one returns nothing or fails
DeviceGetEvents(maxReads) ==
    /\ hid.op = "idle"
    /\ \E mode_ok \in BOOLEAN, n \in 0 .. maxReads, read_ok \in BOOLEAN :
           LET r == device_get_events(device, mode_ok, n, read_ok)
           IN  /\ device' = r.device
               /\ hid' = [HidIdle EXCEPT !.op = "returned", !.call = "get_events",
                                         !.result = IF r.ok THEN "ok" ELSE "err",
                                         !.value = r.value]
    /\ UNCHANGED drawVars

\* Device::poll_event: the mode call, then one read
DevicePollEvent ==
    /\ hid.op = "idle"
    /\ \E mode_ok \in BOOLEAN, read_ok \in BOOLEAN :
           LET r == poll_event(device, mode_ok, read_ok)
           IN  /\ device' = r.device
               /\ hid' = [HidIdle EXCEPT !.op = "returned", !.call = "poll_event",
                                         !.result = IF r.ok THEN "ok" ELSE "err",
                                         !.value = r.value]
    /\ UNCHANGED drawVars

\* the call has returned; the next one may start
DeviceReturn ==
    /\ hid.op = "returned"
    /\ hid' = HidIdle
    /\ UNCHANGED <<drawVars, device>>

(***************************************************************************)
(* Inputs the model draws from.                                            *)
(***************************************************************************)
Dot == Bitmap_new(1, 1, TRUE)
Bar == Bitmap_new(2, 1, TRUE)
Pat == [w |-> 3, h |-> 1, data |-> {0, 2}]
\* a rendered text line at least as wide as the screen
WideLine == [w |-> DEVICE_WIDTH + 2, h |-> 1, data |-> {0, DEVICE_WIDTH + 1}]
\* a rendered text line of 200x16 pixels
Line200x16 == [w |-> 200, h |-> 16, data |-> {0, 199, 200 * 15}]

Play == Cmd("Play", 0)
Pause == Cmd("Pause", 0)
SetVolume(v) == Cmd("SetVolume", v)
SetShiftMode(m) == Cmd("SetShiftMode", IF m = "Simple" THEN 1 ELSE 0)

\* what composing a frame and the sleep may take beyond their minimum
ComposeDelays == {0, 1}
SleepOvershoots == {0, 1}
\* the longest time from one frame_time to the next under these
SetMax(S) == CHOOSE m \in S : \A x \in S : x <= m
TickMax == frame_delay + SetMax(ComposeDelays) + SetMax(SleepOvershoots)

ConnCommands == {Play, Pause, SetVolume(20)}
PresentEdits == {AddLayer(Image(Dot, 0, 0)), ClearLayers}
TxnEdits ==
    {AddLayer(Image(Dot, 0, 0)), RemoveLayer(1), RemoveLayers(<<1, 2>>), ClearLayers,
     AddText(<<Bar>>, 2, None, None, TRUE, "Scroll")}
ShiftCommands == {Play, Pause, SetShiftMode("Simple"), SetShiftMode("Off")}
LayerCommands == {Play, SetShiftMode("Simple")}
\* a 200x16 text line, which add_text makes a Scroll, and a short ScrollNoShift
ScrollEdits == {AddText(<<Line200x16>>, 16, None, None, TRUE, "Scroll"),
                AddLayer(ScrollNoShift(Dot, 0))}

\* input reports of the base station: volume, battery, one that parse_event
\* drops, headset connection
EventReports ==
    <<<<7, 37, 48, 0, 0>>, <<7, 183, 3, 1, 8>>, <<1, 0, 0, 0, 0>>, <<7, 181, 4, 1, 8>>>>

\* input reports by their first five bytes: report ids around 7, the three
\* command ids and others, every third byte, some fourth and fifth bytes
ReportIds == {0, 6, 7, 8, U8_MAX}
CommandIds == {0, 36, 37, 66, 181, 182, 183, U8_MAX}
SomeBytes == {0, 1, 8}

\* placements of a bitmap: every width and x with a few heights and y, and
\* every height and y with a few widths and x
SomeWidths == {1, 200}
SomeXs == {-50, 127}
SomeHeights == {1, 70}
SomeYs == {-3, 7}

\* every bitmap of a size, and the bitmaps and placements that are encoded:
\* all small ones and one wider than a report chunk
AllBitmaps(w, h) == {[w |-> w, h |-> h, data |-> s] : s \in SUBSET (0 .. (w * h - 1))}
Wide66x2 == [w |-> 66, h |-> 2, data |-> {0, 63, 64, 65, 66, 67, 129, 130}]
EncodeBitmaps ==
    AllBitmaps(1, 1) \cup AllBitmaps(2, 2) \cup AllBitmaps(3, 2) \cup AllBitmaps(2, 3)
        \cup {Wide66x2}
EncodeXs == {0, 61, 126}
EncodeYs == {0, 5, 62}

\* the bitmaps that are cropped
CropBitmaps == AllBitmaps(2, 2) \cup AllBitmaps(3, 2)

\* the bitmaps and the offsets that are blitted: offsets around both
\* bitmaps, far outside them, and the two ends of isize
BlitDsts == AllBitmaps(2, 2) \cup AllBitmaps(3, 1)
BlitSrcs == AllBitmaps(2, 2) \cup AllBitmaps(1, 1) \cup AllBitmaps(1, 3)
BlitOffsets == (-MaxBlitOffset .. MaxBlitOffset) \cup {ISIZE_MIN, ISIZE_MIN + 1, ISIZE_MAX}

\* text: what the renderer returns for a text (the bitmaps of its lines and
\* the line height) and the arguments of add_text_with_mode.  The lines are
\* narrower than the screen, as wide, and wider by one pixel and by many.
TextLine(w) == Bitmap_new(w, 1, FALSE)
TextLines == {<<>>,
              <<TextLine(20)>>,
              <<TextLine(20), TextLine(20)>>,
              <<TextLine(129), TextLine(128)>>,
              <<TextLine(20), TextLine(128), TextLine(200)>>}
TextEdits ==
    {AddText(ls, lh, x, y, sh, mode) :
        ls \in TextLines, lh \in {16, 23}, x \in {None, Some(5)},
        y \in {None, Some(4)}, sh \in BOOLEAN, mode \in {"Scroll", "Clip"}}

\* the commands of a client that plays and sets the volume, in and out of
\* range
VolumeCommands == {Play, SetVolume(20), SetVolume(BASE_STATION_VOLUME_MAX + 1)}

\* marquees: a short line with and without burn-in shift, and a line wider
\* than the screen
MarqueeEdits == {AddLayer(Scroll(Dot, 5)), AddLayer(ScrollNoShift(Dot, 0)),
                 AddLayer(Scroll(WideLine, 0))}
\* the sleep is exact, or the worker is held up for a burn-in shift period
MarqueeOvershoots == {0, OLED_SHIFT_PERIOD - frame_delay}

\* layers with a state of their own: a timed animation and a marquee
IdleEdits == {AddLayer(Animation(<<Frame(Dot, Some(1)), Frame(Bar, Some(1))>>, 0, 0, FALSE)),
              AddLayer(Scroll(Dot, 0))}

\* animations: per tick and timed, with delays of None, 0, 1 and 2 units
AnimPalette ==
    {Animation(<<Frame(Dot, None), Frame(Bar, Some(0)), Frame(Pat, None)>>, 0, 0, TRUE),
     Animation(<<Frame(Dot, None)>>, 1, 0, TRUE),
     Animation(<<>>, 0, 0, TRUE),
     Animation(<<>>, 0, 0, FALSE),
     Animation(<<Frame(Dot, Some(2)), Frame(Bar, None)>>, 0, 0, FALSE),
     Animation(<<Frame(Bar, Some(0)), Frame(Dot, Some(1))>>, 0, 1, FALSE)}
\* a sleep that returns on time, or after a stall of ten seconds
StallOvershoots == {0, 10 * UnitsPerSec}

LayerPalette ==
    {Image(Dot, 0, 0), ImageNoShift(Dot, 2, 0),
     Animation(<<Frame(Dot, None), Frame(Bar, Some(0))>>, 0, 2, TRUE),
     Animation(<<>>, 0, 0, TRUE),
     Scroll(Pat, 5), ScrollNoShift(Pat, 7)}

(***************************************************************************)
(* The state after DrawDevice::new, and the specifications.                *)
(***************************************************************************)
InitWith(f, p) ==
    /\ layers = EmptyMap
    /\ mutex = "none"
    /\ cmd_queue = <<>>
    /\ event_queue = <<>>
    /\ layer_counter = 0
    /\ cpc = "idle"
    /\ txn = [applied |-> 0, total |-> 0]
    /\ pc = "top"
    /\ time = 0
    /\ stop_after_frame = FALSE
    /\ playing = FALSE
    /\ oled_shift = 0
    /\ last_shift = 0
    /\ shift_mode = "Off"
    /\ connected = TRUE
    /\ last_connect_attempt = 0
    /\ last_frame_time = 0
    /\ prev_screen = Bitmap_new(0, 0, FALSE)
    /\ shift = <<0, 0>>
    /\ render_ops = <<>>
    /\ screen = Bitmap_new(0, 0, FALSE)
    /\ frame_time = 0
    /\ now = 0
    /\ iter = 0
    /\ faults = f
    /\ pending = p
    /\ io = NoIo
    /\ issued = <<>>
    /\ play_at = None
    /\ forced_seen = FALSE
    /\ received = <<>>
    /\ hid = HidIdle
    /\ device = FirstDevice

Worker(delays, overshoots, maxTicks) ==
    \/ LoopTop
    \/ DrainCmd
    \/ Reconnect
    \/ RenderGate
    \/ WorkerLock
    \/ Plan
    \/ Compose(delays)
    \/ Present
    \/ GetEvents
    \/ EndOfIteration(overshoots, maxTicks)

\* The worker with a device that fails, and a client that sends commands.
Init == InitWith(MaxFaults, <<>>)
Next ==
    \/ Worker(ComposeDelays, SleepOvershoots, MaxTicks)
    \/ SendCommand(ConnCommands, FALSE)
Spec == Init /\ [][Next]_vars

\* The worker presenting frames while the client plays, adds and clears an image.
NextPresent ==
    \/ Worker(ComposeDelays, SleepOvershoots, MaxPresentTicks)
    \/ SendCommand({Play}, FALSE)
    \/ ClientEdit(PresentEdits, MaxPresentId)
SpecPresent == InitWith(MaxPresentFaults, <<>>) /\ [][NextPresent]_vars

\* The worker refreshing an unchanged (empty) screen after play().
NextRefresh ==
    \/ Worker(ComposeDelays, SleepOvershoots, MaxRefreshTicks)
    \/ SendCommand({Play}, TRUE)
SpecRefresh == InitWith(0, <<>>) /\ [][NextRefresh]_vars

\* The worker planning frames while the client edits the store, directly and
\* in transactions.
NextTxn ==
    \/ Worker({0}, {0}, MaxTxnTicks)
    \/ SendCommand({Play}, FALSE)
    \/ ClientEdit(TxnEdits, MaxId)
    \/ TxnBegin(MaxTxnOps)
    \/ TxnEdit(TxnEdits, MaxId)
    \/ TxnEnd
SpecTxn == InitWith(0, <<>>) /\ [][NextTxn]_vars

\* The worker composing layers of every kind, with ticks a shift period apart.
NextCompose ==
    \/ Worker({0}, {OLED_SHIFT_PERIOD}, MaxComposeTicks)
    \/ SendCommand(LayerCommands, FALSE)
    \/ ClientEdit({AddLayer(l) : l \in LayerPalette}, MaxComposeId)
SpecCompose == InitWith(0, <<>>) /\ [][NextCompose]_vars

\* The worker over many shift periods: ticks just under and exactly a period apart.
NextShift ==
    \/ Worker({0}, {OLED_SHIFT_PERIOD - frame_delay - 1, OLED_SHIFT_PERIOD - frame_delay},
              MaxShiftTicks)
    \/ SendCommand(ShiftCommands, FALSE)
SpecShift == InitWith(0, <<>>) /\ [][NextShift]_vars

\* The worker animating layers, with ticks on time or after a long stall.
NextAnim ==
    \/ Worker({0}, StallOvershoots, MaxAnimTicks)
    \/ SendCommand({Play}, FALSE)
    \/ ClientEdit({AddLayer(l) : l \in AnimPalette}, MaxAnimId)
SpecAnim == InitWith(0, <<>>) /\ [][NextAnim]_vars

\* The worker scrolling for more than a revolution, on-time ticks; the client
\* adds its layers and plays during the worker's first iteration.
NextScroll ==
    \/ Worker({0}, {0}, MaxScrollTicks)
    \/ (iter = 0 /\ SendCommand({Play}, FALSE))
    \/ (iter = 0 /\ ClientEdit(ScrollEdits, MaxScrollId))
SpecScroll == InitWith(0, <<>>) /\ [][NextScroll]_vars

\* The client sending commands faster than the worker drains them.
NextFifo ==
    \/ Worker({0}, {0}, MaxFifoTicks)
    \/ SendCommandUpTo(ShiftCommands, FALSE, MaxFifoQueue)
SpecFifo == InitWith(0, <<>>) /\ [][NextFifo]_vars

\* The device delivering input reports and failing once; the client playing
\* and reading the events.
NextEvents ==
    \/ Worker({0}, {0}, MaxEventTicks)
    \/ SendCommand({Play}, FALSE)
    \/ TryEvent
SpecEvents == InitWith(MaxEventFaults, EventReports) /\ [][NextEvents]_vars

\* A program calling the Device directly, one call at a time.
NextDevice ==
    \/ DeviceDraw(MaxReports)
    \/ NextDrawable
    \/ SendFeatureReport
    \/ DeviceSetVolume
    \/ DeviceSetBrightness
    \/ DeviceReturn
SpecDevice == InitWith(0, <<>>) /\ [][NextDevice]_vars

\* parse_event on the input reports, and set_volume whose report it mirrors.
NextParse ==
    \/ DeviceParseEvent(ReportIds, CommandIds, SomeBytes)
    \/ DeviceSetVolume
    \/ DeviceReturn
SpecParse == InitWith(0, <<>>) /\ [][NextParse]_vars

\* The split of a placed bitmap into report drawables, on its own.
NextPrepare ==
    \/ DevicePrepare(0 .. MaxBitmapW, SomeHeights, (-MaxBitmapW) .. MaxBitmapW, SomeYs)
    \/ DevicePrepare(SomeWidths, 0 .. MaxBitmapH, SomeXs, (-MaxBitmapH) .. MaxBitmapH)
    \/ DeviceReturn
SpecPrepare == InitWith(0, <<>>) /\ [][NextPrepare]_vars

\* The reports of a placed bitmap, on their own.
NextEncode ==
    \/ DeviceDrawReports(EncodeBitmaps, EncodeXs, EncodeYs)
    \/ DeviceReturn
SpecEncode == InitWith(0, <<>>) /\ [][NextEncode]_vars

\* Bitmap::crop and Bitmap::blit, on their own.
NextBitmap ==
    \/ BitmapCrop(CropBitmaps, 0 .. MaxCrop)
    \/ BitmapBlit(BlitDsts, BlitSrcs, BlitOffsets, BlitOffsets)
    \/ DeviceReturn
SpecBitmap == InitWith(0, <<>>) /\ [][NextBitmap]_vars

\* The client adding text, the worker not yet playing.
NextText == ClientEdit(TextEdits, MaxTextId)
SpecText == InitWith(0, <<>>) /\ [][NextText]_vars

\* A program reconnecting the Device and reading its events.
NextHandle ==
    \/ DeviceReconnect(MaxHandles)
    \/ DeviceGetEvents(MaxReads)
    \/ DevicePollEvent
    \/ DeviceReturn
SpecHandle == InitWith(0, <<>>) /\ [][NextHandle]_vars

\* The device failing at any of its calls, several times, while the client
\* plays and sets the volume.
NextConn ==
    \/ Worker({0}, {0}, MaxConnTicks)
    \/ SendCommandUpTo(VolumeCommands, FALSE, MaxConnQueue)
SpecConn == InitWith(MaxConnFaults, <<>>) /\ [][NextConn]_vars

\* A marquee scrolling under burn-in shift: the client sets the mode, plays
\* and adds the layer before the first tick or after the shifts.
NextMarquee ==
    \/ Worker({0}, IF iter < 2 THEN MarqueeOvershoots ELSE {0}, MaxMarqueeTicks)
    \/ (iter \in {0, 2} /\ SendCommand({Play, SetShiftMode("Simple")}, FALSE))
    \/ (iter \in {0, 3} /\ ClientEdit(MarqueeEdits, MaxMarqueeId))
SpecMarquee == InitWith(0, <<>>) /\ [][NextMarquee]_vars

\* The client adding layers before the first tick, playing and pausing,
\* while the device delivers input reports and fails once.
NextIdle ==
    \/ Worker({0}, {0}, MaxIdleTicks)
    \/ SendCommand({Play, Pause}, FALSE)
    \/ (iter = 0 /\ pc = "top" /\ ClientEdit(IdleEdits, MaxIdleId))
SpecIdle == InitWith(MaxIdleFaults, EventReports) /\ [][NextIdle]_vars

\* The client calling every kind of method at any moment, its lock() calls
\* made visible, while the worker ticks and the device fails once.  Fairness:
\* the worker is a thread of its own and each of its steps returns (no device
\* call blocks, get_events reads without blocking); the closure given to
\* transact_layers returns; a thread waiting in lock() gets the mutex when it
\* is released again and again (the worker sleeps between two ticks with the
\* mutex free).
LiveEdits == {AddLayer(Image(Dot, 0, 0)), ClearLayers}
WorkerLive == Worker({0}, {0}, MaxLiveTicks)
ClientLocked == ClientLockedEdit(LiveEdits, MaxLiveId) \/ ClientLockedTxn(MaxLiveOps)
NextLive ==
    \/ Worker({0}, {0}, MaxLiveTicks)
    \/ SendCommandUpTo({Play, Pause, SetShiftMode("Simple"), SetVolume(20)}, FALSE,
                       MaxLiveQueue)
    \/ TryEvent
    \/ ClientLock
    \/ ClientLockedEdit(LiveEdits, MaxLiveId)
    \/ ClientLockedTxn(MaxLiveOps)
    \/ TxnEdit(LiveEdits, MaxLiveId)
    \/ TxnEnd
SpecLive ==
    /\ InitWith(MaxLiveFaults, <<>>)
    /\ [][NextLive]_vars
    /\ WF_vars(WorkerLive)
    /\ SF_vars(WorkerLock)
    /\ SF_vars(ClientLocked)
    /\ WF_vars(TxnEdit(LiveEdits, MaxLiveId))
    /\ WF_vars(TxnEnd)

\* The client stopping the device at any moment, playing or paused, with a
\* device that may fail.  The worker is a thread of its own whose every step
\* returns, and join() returns once the thread has ended: both are weakly fair.
WorkerStop == Worker({0}, {0}, MaxStopTicks)
NextDrop ==
    \/ Worker({0}, {0}, MaxStopTicks)
    \/ SendCommand({Play, Pause}, FALSE)
    \/ TryEvent
    \/ (iter < MaxStopTicks /\ Stop)
    \/ Join
    \/ Drop
SpecDrop == InitWith(MaxStopFaults, <<>>) /\ [][NextDrop]_vars

NextStop ==
    \/ WorkerStop
    \/ SendCommand({Play, Pause}, FALSE)
    \/ (iter < MaxStopTicks /\ Stop)
    \/ Join
SpecStop ==
    /\ InitWith(MaxStopFaults, <<>>)
    /\ [][NextStop]_vars
    /\ WF_vars(WorkerStop)
    /\ WF_vars(Join)

(***************************************************************************)
(* Properties.                                                             *)
(***************************************************************************)

\* C1: the edits made inside one transact_layers call are atomic with respect
\* to the worker's frames: whenever the worker plans a frame (the step through
\* its critical section), no transaction is part-way through its edits, so the
\* store it plans from holds none or all of a transaction's edits, never a
\* proper prefix of them.
C1_TransactionAtomic ==
    [][(pc = "plan" /\ pc' = "compose")
          => ~(cpc = "txn" /\ 0 < txn.applied /\ txn.applied < txn.total)]_vars

\* the worker is waiting for the lock while a transaction of two edits has
\* made its first edit
C1_Witness ==
    /\ pc = "lock"
    /\ cpc = "txn"
    /\ txn.total = 2
    /\ txn.applied = 1
    /\ layers # EmptyMap

\* C2: the worker never holds the layer mutex while it does device I/O
\* (set_volume, reconnect, draw, get_events): it holds the mutex only in the
\* planning step, and no step that calls the device runs with the mutex held.
C2_NoIoUnderLock ==
    /\ mutex = "worker" => pc = "plan"
    /\ io.call # "none" => mutex # "worker"

\* a frame has been planned under the lock and then drawn
C2_Witness ==
    /\ io = Io("draw", TRUE)
    /\ prev_screen = screen
    /\ mutex = "none"

\* C3: LayerIds are non-zero, strictly increasing in order of issue, and never
\* reused, also after the layer an id named was removed or the store cleared.
C3_LayerIdsFresh ==
    /\ \A i \in 1 .. Len(issued) : issued[i] # LayerId_none
    /\ \A i \in 1 .. Len(issued) : \A j \in 1 .. Len(issued) :
           i < j => issued[i] < issued[j]
    /\ \A id \in DOMAIN layers : \E i \in 1 .. Len(issued) : issued[i] = id

\* a third id was issued after the layers of the first two were removed
C3_Witness ==
    /\ Len(issued) = 3
    /\ DOMAIN layers = {issued[3]}

\* C4: a frame is drawn in an iteration only if, after that iteration's
\* command drain and reconnect attempt, connected and playing both hold: the
\* worker enters the render block exactly when both hold, both still hold when
\* it presents the frame, and dev.draw is called nowhere else.
C4_DrawOnlyConnectedPlaying ==
    [][/\ (pc = "render" /\ pc' # pc) => (pc' = "lock" <=> connected /\ playing)
       /\ pc' \in {"lock", "plan", "compose", "present"} => connected' /\ playing'
       /\ io'.call = "draw" => pc = "present" /\ connected /\ playing]_vars

\* a frame was drawn after a Play, and later ticks ran paused without a draw
C4_Witness ==
    /\ pc = "events"
    /\ io = NoIo
    /\ ~playing
    /\ connected
    /\ prev_screen = Bitmap_new(DEVICE_WIDTH, DEVICE_HEIGHT, FALSE)

\* C5: when the write of SetVolume(20) fails while connected, that drain step
\* marks the device disconnected and emits exactly one DeviceDisconnected;
\* while disconnected no frame is drawn and no further DeviceDisconnected is
\* emitted (the only event that can follow is the DeviceReconnected of a
\* successful reconnect).
C5_VolumeFailureDisconnects ==
    [][/\ (pc = "drain" /\ io' = Io("set_volume", FALSE))
            => /\ Head(cmd_queue) = SetVolume(20)
               /\ connected
               /\ ~connected'
               /\ event_queue' = Append(event_queue, DeviceDisconnected)
       /\ ~connected
            => /\ io'.call \notin {"draw", "get_events"}
               /\ \/ event_queue' = event_queue
                  \/ /\ event_queue' = Append(event_queue, DeviceReconnected)
                     /\ connected']_vars

\* while playing and connected in a later tick, the write of SetVolume(20)
\* has just failed: one DeviceDisconnected is in the event queue
C5_Witness ==
    /\ io = Io("set_volume", FALSE)
    /\ event_queue = <<DeviceDisconnected>>
    /\ ~connected
    /\ playing
    /\ iter >= 1

\* C6: reconnect is attempted only when the device is disconnected and at
\* least one second has passed since last_connect_attempt, which the attempt
\* sets to the tick's time (so two attempts are at least one second apart); a
\* failed attempt emits no event and leaves the device disconnected; a
\* successful one emits exactly one DeviceReconnected and marks it connected,
\* so that the same tick renders again if playing.
C6_ReconnectPacing ==
    [][/\ io'.call = "reconnect"
            => /\ pc = "reconnect"
               /\ ~connected
               /\ time - last_connect_attempt >= 1 * UnitsPerSec
               /\ last_connect_attempt' = time
               /\ io'.ok => /\ connected'
                            /\ event_queue' = Append(event_queue, DeviceReconnected)
               /\ ~io'.ok => /\ ~connected'
                             /\ event_queue' = event_queue
       /\ last_connect_attempt' # last_connect_attempt => io'.call = "reconnect"
       /\ (~connected /\ connected') => io' = Io("reconnect", TRUE)
       /\ (pc = "render" /\ connected /\ playing) => pc' \in {"render", "lock"}]_vars

\* after a disconnect a reconnect failed, a later one succeeded, and a frame
\* was drawn again
C6_Witness ==
    /\ event_queue = <<DeviceDisconnected, DeviceReconnected>>
    /\ faults = 0
    /\ io = Io("draw", TRUE)
    /\ last_connect_attempt >= 2 * UnitsPerSec

\* C7: in a tick where the worker is connected and playing, the present step
\* calls device.draw if and only if the composed screen differs from
\* prev_screen or at least 1 s has passed since last_frame_time; an identical
\* screen composed less than 1 s after last_frame_time causes no device call.
C7_DrawIffChangedOrStale ==
    [][(pc = "present" /\ pc' = "events")
          => /\ connected /\ playing
             /\ io'.call = "draw"
                  <=> (screen # prev_screen
                       \/ frame_time - last_frame_time >= 1 * UnitsPerSec)
             /\ (screen = prev_screen /\ frame_time - last_frame_time < 1 * UnitsPerSec)
                  => io' = NoIo]_vars

\* an image was drawn, and the next tick composed the same screen less than
\* a second later: nothing was sent
C7_Witness ==
    /\ pc = "events"
    /\ io = NoIo
    /\ connected /\ playing
    /\ layers # EmptyMap
    /\ screen = prev_screen
    /\ screen.data # {}
    /\ frame_time > last_frame_time

\* C8 (as amended): while the worker stays connected and playing, every
\* rendered tick leaves the device holding the composed screen, sent less
\* than 1 s before that tick's frame_time; so once a first frame was sent, the
\* latest draw is never older than 1 s plus one tick.  (The first draw after
\* play() is the one of the changed screen; the first forced redraw follows
\* it by up to 1 s plus one tick.)
C8_RefreshedEverySecond ==
    /\ (pc = "events" /\ connected /\ playing)
          => /\ prev_screen = screen
             /\ frame_time - last_frame_time < 1 * UnitsPerSec
    /\ (connected /\ playing /\ prev_screen # Bitmap_new(0, 0, FALSE))
          => now - last_frame_time < 1 * UnitsPerSec + TickMax

\* play() came at time 0 and the ticks ran without jitter: the tick one
\* second later has just sent the forced redraw of the unchanged empty screen
C8_Witness ==
    /\ play_at = Some(0)
    /\ forced_seen
    /\ io = Io("draw", TRUE)
    /\ layers = EmptyMap
    /\ iter = Fps
    /\ frame_time = 1 * UnitsPerSec

\* C8 as stated: with no layers, once more than one second has passed since
\* play() the device has received a forced redraw.
C8_ForcedWithinOneSecond ==
    (is_some(play_at) /\ now - play_at[1] > 1 * UnitsPerSec) => forced_seen

\* the set pixels of bitmap b placed at (x, y) on the device, clipped
PlacedPixels(b, x, y) ==
    {(((i \div b.w) + y) * DEVICE_WIDTH) + ((i % b.w) + x) :
        i \in {j \in b.data : /\ (j % b.w) + x \in 0 .. DEVICE_WIDTH - 1
                              /\ (j \div b.w) + y \in 0 .. DEVICE_HEIGHT - 1}}

\* the set pixels one layer contributes to a frame under the shift (sx, sy)
LayerPixels(st, sx, sy) ==
    LET l == st.layer
        tiles == 0 .. (1 + (DEVICE_WIDTH \div (l.bitmap.w + 30)))
    IN  CASE l.kind = "Image" -> PlacedPixels(l.bitmap, l.x + sx, l.y + sy)
          [] l.kind = "ImageNoShift" -> PlacedPixels(l.bitmap, l.x, l.y)
          [] l.kind = "Animation" ->
               IF l.frames = <<>> THEN {}
               ELSE PlacedPixels(l.frames[(st.anim.ticks % Len(l.frames)) + 1].bitmap,
                                 l.x + sx, l.y + sy)
          [] l.kind = "Scroll" ->
               UNION {PlacedPixels(l.bitmap, st.scroll.x + sx + (i * (l.bitmap.w + 30)),
                                   l.y + sy) : i \in tiles}
          [] l.kind = "ScrollNoShift" ->
               UNION {PlacedPixels(l.bitmap, st.scroll.x + (i * (l.bitmap.w + 30)), l.y) :
                         i \in tiles}

\* the frame of a store: all-off, then every layer's pixels OR-ed in
StoreScreen(map, sx, sy) ==
    [w |-> DEVICE_WIDTH, h |-> DEVICE_HEIGHT,
     data |-> UNION {LayerPixels(map[id], sx, sy) : id \in DOMAIN map}]

\* C9: the screen composed in a tick is the OR-blit, onto an all-off
\* device-sized bitmap, of every layer of the store (as locked by the tick) at
\* its position: Image, Animation and Scroll offset by the tick's shift,
\* ImageNoShift and ScrollNoShift not offset; the ops are planned in ascending
\* id order; with shift Off and the single layer Image{b,0,0} the screen is
\* blit(empty, b, 0, 0).
C9_ComposedScreen ==
    [][/\ (pc = "plan" /\ pc' = "compose")
            => LET empty == Bitmap_new(DEVICE_WIDTH, DEVICE_HEIGHT, FALSE)
                   composed == run_render_ops(empty, render_ops')
               IN  /\ composed = StoreScreen(layers, shift[1], shift[2])
                   /\ Len(render_ops') <= Cardinality(DOMAIN layers)
                   /\ (/\ shift_mode = "Off"
                       /\ Cardinality(DOMAIN layers) = 1
                       /\ \A id \in DOMAIN layers :
                              /\ layers[id].layer.kind = "Image"
                              /\ layers[id].layer.x = 0
                              /\ layers[id].layer.y = 0)
                         => \A id \in DOMAIN layers :
                                composed = blit(empty, layers[id].layer.bitmap, 0, 0, FALSE)
       /\ (pc = "compose" /\ pc' = "present")
            => screen' = run_render_ops(Bitmap_new(DEVICE_WIDTH, DEVICE_HEIGHT, FALSE),
                                        render_ops)]_vars

\* a frame of a shifted Image and an unshifted ImageNoShift was composed
\* under the shift (0,-1): the Image's pixel is shifted off the top of the
\* screen, the ImageNoShift's pixel is where it was put
C9_Witness ==
    /\ pc = "present"
    /\ shift = <<0, -1>>
    /\ Cardinality(DOMAIN layers) = 2
    /\ \E id \in DOMAIN layers : layers[id].layer = Image(Dot, 0, 0)
    /\ \E id \in DOMAIN layers : layers[id].layer = ImageNoShift(Dot, 2, 0)
    /\ screen.data = {2}

\* C10: under ShiftMode::Simple the shift index changes only in a rendered
\* tick at least 90 s after the previous change, and does change in every
\* such tick: once per 90 s; each change advances it by one modulo 9 through
\* (0,0),(0,-1),(1,-1),(1,0),(1,1),(0,1),(-1,1),(-1,0),(-1,-1), and the shift
\* applied is the entry at the index; under ShiftMode::Off it is (0,0).
C10_ShiftCycle ==
    [][LET cycle == <<<<0, 0>>, <<0, -1>>, <<1, -1>>, <<1, 0>>, <<1, 1>>, <<0, 1>>,
                      <<-1, 1>>, <<-1, 0>>, <<-1, -1>>>>
           due == time - last_shift >= 90 * UnitsPerSec
       IN  /\ oled_shift' # oled_shift
                => /\ pc = "render" /\ pc' = "lock"
                   /\ shift_mode = "Simple"
                   /\ due
                   /\ oled_shift' = (oled_shift + 1) % 9
                   /\ last_shift' = time
           /\ last_shift' # last_shift => oled_shift' # oled_shift
           /\ (pc = "render" /\ pc' = "lock")
                => /\ (shift_mode = "Simple" /\ due) => oled_shift' # oled_shift
                   /\ shift' = IF shift_mode = "Off" THEN <<0, 0>>
                               ELSE cycle[oled_shift' + 1]]_vars

\* the index has gone through the whole cycle and wrapped to 0
C10_Witness ==
    /\ oled_shift = 0
    /\ last_shift = 9 * 90 * UnitsPerSec
    /\ shift_mode = "Simple"
    /\ shift = <<0, 0>>
    /\ pc = "lock"

\* the op planned for layer id of the store: layers are planned in id order,
\* and an Animation without frames plans none
OpOfLayer(map, ops, id) ==
    ops[1 + Cardinality({j \in DOMAIN map :
                            /\ j < id
                            /\ ~(map[j].layer.kind = "Animation"
                                 /\ map[j].layer.frames = <<>>)})]

\* the worker's step through its critical section
PlanStep == pc = "plan" /\ pc' = "compose"

\* C11: an Animation with follow_fps and N >= 1 frames shows frame (k mod N)
\* on its k-th rendered tick: its cursor is 0 when the layer is added, is
\* changed by nothing but a rendered tick, and each rendered tick shows the
\* frame at (cursor mod N) and adds exactly one to the cursor; so every frame
\* is shown within the first N ticks, which is within N*(N+1)/2.  An
\* Animation with no frames plans no render op and its state is unchanged.
C11_FollowFpsRoundRobin ==
    [][/\ PlanStep =>
            \A id \in DOMAIN layers :
                LET l == layers[id].layer
                    N == Len(l.frames)
                    k == layers[id].anim.ticks
                IN  l.kind = "Animation" =>
                      /\ N = 0 =>
                           /\ layers'[id] = layers[id]
                           /\ Len(render_ops') < Cardinality(DOMAIN layers)
                      /\ (N >= 1 /\ l.follow_fps) =>
                           /\ layers'[id].anim.ticks = k + 1
                           /\ OpOfLayer(layers, render_ops', id)
                                = [op |-> "Blit", bitmap |-> l.frames[(k % N) + 1].bitmap,
                                   x |-> l.x + shift[1], y |-> l.y + shift[2]]
                           /\ \A f \in 0 .. N - 1 :
                                  \E j \in 0 .. ((N * (N + 1)) \div 2) - 1 : j % N = f
       /\ ~PlanStep =>
            \A id \in DOMAIN layers \cap DOMAIN layers' : layers'[id] = layers[id]
       /\ \A id \in DOMAIN layers' \ DOMAIN layers : layers'[id].anim.ticks = 0]_vars

\* a three-frame per-tick animation has been rendered four times: the frame
\* planned last is the first one again
C11_Witness ==
    /\ pc = "compose"
    /\ \E id \in DOMAIN layers :
           /\ layers[id].layer.follow_fps
           /\ Len(layers[id].layer.frames) = 3
           /\ layers[id].anim.ticks = 4
    /\ render_ops = <<BlitOp(Dot, 0, 0)>>

\* a frame's delay as the timed animation uses it
ClampedDelay(f) == IF f.delay = <<>> \/ f.delay = <<0>> THEN frame_delay ELSE f.delay[1]
\* the smallest clamped delay of the frames
MinDelay(frames) ==
    CHOOSE m \in {ClampedDelay(frames[i]) : i \in 1 .. Len(frames)} :
        \A i \in 1 .. Len(frames) : m <= ClampedDelay(frames[i])
\* the clamped delays of n frames in a row, the first at cursor k
RECURSIVE DelaySum(_, _, _)
DelaySum(frames, k, n) ==
    IF n = 0 THEN 0
    ELSE ClampedDelay(frames[(k % Len(frames)) + 1]) + DelaySum(frames, k + 1, n - 1)

\* C12: for an Animation with follow_fps = false, one rendered tick advances
\* the cursor by at most 8 steps however far behind next_update is, by 0
\* steps (and changes nothing) when now < next_update, and by at least one
\* when now >= next_update; the frames it skips (the steps beyond the first)
\* are at most floor(behind / min_delay), hence at most ceil(behind /
\* min_delay), with behind = now - next_update; the frame rendered is the
\* one at the cursor before the advance.
C12_CatchupBounded ==
    [][PlanStep =>
          \A id \in DOMAIN layers :
              LET l == layers[id].layer
                  pre == layers[id].anim
                  post == layers'[id].anim
                  steps == post.ticks - pre.ticks
                  behind == time - pre.next_update
              IN  (l.kind = "Animation" /\ ~l.follow_fps /\ l.frames # <<>>) =>
                    /\ steps \in 0 .. 8
                    /\ time < pre.next_update => post = pre
                    /\ time >= pre.next_update =>
                         /\ steps >= 1
                         /\ (steps - 1) * MinDelay(l.frames) <= behind
                         /\ steps - 1 <= (behind + MinDelay(l.frames) - 1)
                                            \div MinDelay(l.frames)
                    /\ OpOfLayer(layers, render_ops', id)
                         = [op |-> "Blit",
                            bitmap |-> l.frames[(pre.ticks % Len(l.frames)) + 1].bitmap,
                            x |-> l.x + shift[1], y |-> l.y + shift[2]]]_vars

\* after a stall a timed animation has just advanced by the full 8 steps
C12_Witness ==
    /\ pc = "compose"
    /\ \E id \in DOMAIN layers :
           /\ ~layers[id].layer.follow_fps
           /\ layers[id].layer.frames # <<>>
           /\ layers[id].anim.ticks = 8
           /\ layers[id].anim.next_update = time + frame_delay
    /\ iter = 1

\* C13: for an Animation with follow_fps = false and frames, a frame delay of
\* None or zero counts as the target frame delay: a rendered tick with
\* now >= next_update moves next_update on by the clamped delays of the frames
\* it steps over, or, when that is still not later than now after 8 steps,
\* to now + target frame delay; either way the new next_update is strictly
\* later than now.
C13_NextUpdateAhead ==
    [][PlanStep =>
          \A id \in DOMAIN layers :
              LET l == layers[id].layer
                  pre == layers[id].anim
                  post == layers'[id].anim
                  steps == post.ticks - pre.ticks
                  stepped == pre.next_update + DelaySum(l.frames, pre.ticks, steps)
              IN  (/\ l.kind = "Animation" /\ ~l.follow_fps /\ l.frames # <<>>
                   /\ time >= pre.next_update) =>
                    /\ post.next_update > time
                    /\ \/ post.next_update = stepped
                       \/ /\ stepped <= time
                          /\ steps = 8
                          /\ post.next_update = time + frame_delay]_vars

\* a timed animation whose first frame has delay zero has stepped over it
\* on time: next_update moved on by the target frame delay
C13_Witness ==
    /\ pc = "compose"
    /\ \E id \in DOMAIN layers :
           /\ layers[id].layer = Animation(<<Frame(Bar, Some(0)), Frame(Dot, Some(1))>>,
                                           0, 1, FALSE)
           /\ layers[id].anim.ticks = 1
           /\ layers[id].anim.next_update = time + frame_delay

\* the scrolling layers and the duration of the pause after a revolution
IsScroll(l) == l.kind \in {"Scroll", "ScrollNoShift"}
Pause900ms == ((9 * UnitsPerSec) + 5) \div 10
ScrollIsPaused(scroll, t) == scroll.pause_until # <<>> /\ t < scroll.pause_until[1]

\* C14: a Scroll or ScrollNoShift layer over a bitmap of width w has
\* scroll_w = w + 30 and keeps scroll.x within -(scroll_w - 1) .. 0; a
\* rendered tick outside a pause decrements x by one, except that the tick
\* which would reach -scroll_w returns x to 0 instead and sets pause_until to
\* now + 900 ms, so x is back at 0 exactly every scroll_w unpaused ticks;
\* a rendered tick inside the pause leaves x and pause_until alone.
C14_ScrollRevolution ==
    [][PlanStep =>
          \A id \in DOMAIN layers :
              LET l == layers[id].layer
                  pre == layers[id].scroll
                  post == layers'[id].scroll
                  w == l.bitmap.w + 30
              IN  IsScroll(l) =>
                    /\ pre.x \in -(w - 1) .. 0
                    /\ ScrollIsPaused(pre, time) => post = pre
                    /\ (~ScrollIsPaused(pre, time) /\ pre.x > -(w - 1)) =>
                         post = [pre EXCEPT !.x = pre.x - 1]
                    /\ (~ScrollIsPaused(pre, time) /\ pre.x = -(w - 1)) =>
                         post = [x |-> 0, pause_until |-> <<time + Pause900ms>>]]_vars

\* a one-pixel ScrollNoShift layer (scroll_w = 31) has been planned once
\* inside the pause that followed its first revolution: x is still 0
C14_Witness ==
    /\ pc = "compose"
    /\ \E id \in DOMAIN layers :
           /\ layers[id].layer = ScrollNoShift(Dot, 0)
           /\ layers[id].scroll = [x |-> 0, pause_until |-> <<time + 1>>]
    /\ iter \in {31, 32}

\* the Scroll layer that add_text makes of a line 200 pixels wide
IsScroll200(l) == l.kind = "Scroll" /\ l.bitmap = Line200x16

\* C15: for a 200-pixel-wide Scroll layer (scroll_w = 230), x is -1 after
\* the first unpaused tick and one lower after each further one down to
\* -229; the unpaused tick taken at x = -229 (the 230th) returns x to 0 and
\* starts the 900 ms pause, so x is never -230.
C15_Scroll200 ==
    [][PlanStep =>
          \A id \in DOMAIN layers :
              LET pre == layers[id].scroll
                  post == layers'[id].scroll
              IN  IsScroll200(layers[id].layer) =>
                    /\ pre.x \in -229 .. 0
                    /\ (~ScrollIsPaused(pre, time) /\ pre.x > -229) =>
                         post = [pre EXCEPT !.x = pre.x - 1]
                    /\ (~ScrollIsPaused(pre, time) /\ pre.x = -229) =>
                         post = [x |-> 0, pause_until |-> <<time + Pause900ms>>]]_vars

\* the 200-pixel line, added and played before the first tick, has just
\* wrapped on its 230th rendered tick
C15_Witness ==
    /\ pc = "compose"
    /\ iter = 229
    /\ \E id \in DOMAIN layers :
           /\ IsScroll200(layers[id].layer)
           /\ layers[id].scroll = [x |-> 0, pause_until |-> <<time + Pause900ms>>]

\* C15 as written: the 230th unpaused tick leaves x at -230 and the tick
\* after it wraps to 0 and starts the pause
C15_WrapsAfter230 ==
    [][PlanStep =>
          \A id \in DOMAIN layers :
              LET pre == layers[id].scroll
                  post == layers'[id].scroll
              IN  IsScroll200(layers[id].layer) =>
                    /\ (~ScrollIsPaused(pre, time) /\ pre.x > -230) =>
                         post = [pre EXCEPT !.x = pre.x - 1]
                    /\ (~ScrollIsPaused(pre, time) /\ pre.x = -230) =>
                         post = [x |-> 0, pause_until |-> <<time + Pause900ms>>]]_vars

RECURSIVE PlayingAfter(_, _)
PlayingAfter(p, q) ==
    IF q = <<>> THEN p
    ELSE PlayingAfter(CASE Head(q).cmd = "Play" -> TRUE
                        [] Head(q).cmd = "Pause" -> FALSE
                        [] OTHER -> p, Tail(q))
RECURSIVE ShiftModeAfter(_, _)
ShiftModeAfter(m, q) ==
    IF q = <<>> THEN m
    ELSE ShiftModeAfter(IF Head(q).cmd = "SetShiftMode"
                        THEN (IF Head(q).arg = 1 THEN "Simple" ELSE "Off")
                        ELSE m, Tail(q))

\* C17: commands are applied in the order they were enqueued: a send appends
\* at the tail, the drain takes the head, and taking a command leaves the
\* values that playing and shift_mode will have after the rest of the queue
\* unchanged; the drain ends only on an empty queue, nothing but the drain
\* changes playing or shift_mode, and no frame is drawn during the drain: so
\* the frame uses the last Play/Pause and the last SetShiftMode enqueued
\* before the drain ended.
C17_CommandsInOrder ==
    [][/\ Len(cmd_queue') > Len(cmd_queue) =>
            /\ \E c \in ShiftCommands : cmd_queue' = Append(cmd_queue, c)
            /\ playing' = playing /\ shift_mode' = shift_mode
       /\ Len(cmd_queue') < Len(cmd_queue) =>
            /\ pc = "drain" /\ pc' = "drain"
            /\ cmd_queue' = Tail(cmd_queue)
            /\ PlayingAfter(playing', cmd_queue') = PlayingAfter(playing, cmd_queue)
            /\ ShiftModeAfter(shift_mode', cmd_queue')
                 = ShiftModeAfter(shift_mode, cmd_queue)
       /\ Len(cmd_queue') = Len(cmd_queue) =>
            (playing' = playing /\ shift_mode' = shift_mode)
       /\ (pc = "drain" /\ pc' # "drain") => cmd_queue = <<>>
       /\ pc = "drain" => io'.call # "draw"]_vars

\* Play and Pause were sent in this order between two drains; the second
\* drain has applied Play and has Pause still to take, and no frame has been
\* drawn so far
C17_Witness ==
    /\ pc = "drain"
    /\ iter = 1
    /\ cmd_queue = <<Pause>>
    /\ playing
    /\ prev_screen = Bitmap_new(0, 0, FALSE)

IsPrefix(a, b) == Len(a) <= Len(b) /\ SubSeq(b, 1, Len(a)) = a

\* C18: the DrawEvents the client has read, followed by those still in the
\* channel, are the events the worker has sent so far in the order it sent
\* them: a worker step only extends that sequence at its end, and a read
\* takes the oldest unread event.  The device events one successful
\* get_events call returns are forwarded, each as a DeviceEvent, in the
\* order their reports were read.
C18_EventsInOrder ==
    [][/\ IsPrefix(received \o event_queue, received' \o event_queue')
       /\ received' # received =>
            /\ event_queue # <<>>
            /\ received' = Append(received, Head(event_queue))
            /\ event_queue' = Tail(event_queue)
       /\ (io'.call = "get_events" /\ io'.ok) =>
            LET read == SubSeq(pending, 1, Len(pending) - Len(pending'))
                parsed == SelectSeq([i \in 1 .. Len(read) |-> parse_event(read[i])],
                                    LAMBDA o : o # <<>>)
            IN  /\ received' = received
                /\ event_queue' = event_queue \o
                       [i \in 1 .. Len(parsed) |->
                            [ev |-> "DeviceEvent", data |-> parsed[i]]]]_vars

\* the first get_events call returned the first two events, and the client
\* has read both; the other reports are still to come
C18_Witness ==
    /\ iter = 0
    /\ pending = SubSeq(EventReports, 3, 4)
    /\ received = <<DeviceEvent([kind |-> "Volume", volume |-> 8]),
                    DeviceEvent([kind |-> "Battery", headset |-> 3, charging |-> 1])>>
    /\ event_queue = <<>>

\* the positions in the running call's HID calls that carry report k
SendsOf(k) == {j \in 1 .. Len(hid.calls) : hid.calls[j].data = hid.reports[k]}
Squares(n) == [k \in 1 .. n |-> k * k]

\* C19: in Device::draw each report is sent at most 11 times; a send that
\* succeeds is the last one of its report and a send that fails is followed
\* only by another send of the same report, so reports go out in order and
\* none is started after one was given up; while retrying, k failed sends
\* (k <= 10) have been followed by sleeps of 1, 4, .., k^2 ms; the call
\* fails exactly when the report it is at has failed 11 times (after ten
\* sleeps, none after the 11th), and succeeds exactly when every report had
\* a send that succeeded.
C19_RetryReport ==
    hid.call = "draw" =>
        LET c == hid.calls
            n == Len(hid.reports)
        IN  /\ \A j \in 1 .. Len(c) - 1 :
                   /\ c[j].ok => c[j + 1].data[2] = c[j].data[2] + 1
                   /\ ~c[j].ok => c[j + 1].data = c[j].data
            /\ c # <<>> => c[1].data = hid.reports[1]
            /\ \A k \in 1 .. n : Cardinality(SendsOf(k)) <= 11
            /\ hid.op = "retry" =>
                   /\ hid.idx \in 1 .. n
                   /\ Cardinality(SendsOf(hid.idx)) <= 10
                   /\ \A j \in SendsOf(hid.idx) : ~c[j].ok
                   /\ hid.slept = Squares(Cardinality(SendsOf(hid.idx)))
            /\ hid.result = "err" <=>
                   \E k \in 1 .. n :
                       /\ Cardinality(SendsOf(k)) = 11
                       /\ \A j \in SendsOf(k) : ~c[j].ok
            /\ hid.result = "err" =>
                   /\ c[Len(c)].data = hid.reports[hid.idx]
                   /\ hid.slept = Squares(10)
                   /\ hid.op = "returned"
            /\ hid.result = "ok" <=>
                   /\ hid.op = "returned"
                   /\ \A k \in 1 .. n : \E j \in SendsOf(k) : c[j].ok

\* a draw of two reports: the first went through at its third send, the
\* second was given up after 11 sends and ten sleeps
C19_Witness ==
    /\ hid.call = "draw"
    /\ hid.result = "err"
    /\ hid.idx = 2
    /\ Len(hid.calls) = 3 + 11
    /\ hid.calls[3].ok
    /\ hid.slept = <<1, 4, 9, 16, 25, 36, 49, 64, 81, 100>>

\* the 64-byte report with the given first three bytes
Bytes64(b0, b1, b2) ==
    [k \in 1 .. 64 |-> CASE k = 1 -> b0 [] k = 2 -> b1 [] k = 3 -> b2 [] OTHER -> 0]

\* C20: set_volume(v) makes one write, of the 64-byte report 06 25 (56 - v)
\* 00 .., when v <= 56, and fails without a write when v > 56;
\* set_brightness(v) makes one write, of 06 85 v 00 .., when 1 <= v <= 10,
\* and fails without a write when v = 0 or v > 10.  A call that writes
\* succeeds exactly when the write does.
C20_SetterReports ==
    /\ hid.call = "set_volume" =>
           IF hid.arg <= 56
           THEN /\ Len(hid.calls) = 1
                /\ hid.calls[1].data = Bytes64(6, 37, 56 - hid.arg)
                /\ hid.calls[1].ok <=> hid.result = "ok"
           ELSE hid.calls = <<>> /\ hid.result = "err"
    /\ hid.call = "set_brightness" =>
           IF hid.arg >= 1 /\ hid.arg <= 10
           THEN /\ Len(hid.calls) = 1
                /\ hid.calls[1].data = Bytes64(6, 133, hid.arg)
                /\ hid.calls[1].ok <=> hid.result = "ok"
           ELSE hid.calls = <<>> /\ hid.result = "err"

\* set_volume(0) has written 06 25 38
C20_Witness ==
    /\ hid.call = "set_volume"
    /\ hid.arg = 0
    /\ hid.result = "ok"
    /\ SubSeq(hid.calls[1].data, 1, 3) = <<6, 37, 56>>
    /\ Len(hid.calls[1].data) = 64

\* what parse_event is to return for a buffer whose third byte is at most 56
\* or whose first two bytes are not a known report
ParsedAs(buf, volume) ==
    IF buf[1] # 7 \/ buf[2] \notin {37, 181, 183} THEN <<>>
    ELSE IF buf[2] = 37 THEN <<[kind |-> "Volume", volume |-> volume]>>
    ELSE IF buf[2] = 181
         THEN <<[kind |-> "HeadsetConnection", wireless |-> (buf[5] = 8),
                 bluetooth |-> (buf[4] = 1), bluetooth_on |-> (buf[3] = 4)]>>
         ELSE <<[kind |-> "Battery", headset |-> buf[3], charging |-> buf[4]]>>

\* C21: parse_event gives None when buf[0] # 7 or buf[1] is none of 0x25,
\* 0xb5, 0xb7; otherwise 0x25 gives Volume{56 - buf[2]} when buf[2] <= 56
\* and Volume{0} when buf[2] > 56, 0xb5 gives HeadsetConnection{wireless =
\* (buf[4] = 8), bluetooth = (buf[3] = 1), bluetooth_on = (buf[2] = 4)} and
\* 0xb7 gives Battery{headset = buf[2], charging = buf[3]}; for every v in
\* 0 .. 56 the report 07 25 b with b the third byte set_volume(v) writes
\* parses to Volume{v}.
C21_ParseEvent ==
    /\ hid.call = "parse_event" =>
           hid.value = ParsedAs(hid.arg, IF hid.arg[3] <= 56 THEN 56 - hid.arg[3]
                                         ELSE 0)
    /\ (hid.call = "set_volume" /\ hid.calls # <<>>) =>
           parse_event(<<7, 37, hid.calls[1].data[3], 0, 0>>)
               = <<[kind |-> "Volume", volume |-> hid.arg]>>

\* the report 07 25 30 has been parsed to Volume{8}
C21_Witness ==
    /\ hid.call = "parse_event"
    /\ hid.arg = <<7, 37, 48, 0, 0>>
    /\ hid.value = <<[kind |-> "Volume", volume |-> 8]>>

\* C21 as written: 0x25 gives Volume{56 - buf[2]} for every buffer
C21_VolumeIs56Minus ==
    hid.call = "parse_event" => hid.value = ParsedAs(hid.arg, 56 - hid.arg[3])

\* C22: for a bitmap of width 0 .. 256 and height 0 .. 128 placed at x in
\* -256 .. 256, y in -128 .. 128 on the 128x64 screen, every drawable of the
\* split has 1 <= w <= 64 and h >= 1, lies inside the bitmap (src_x + w <=
\* width, src_y + h <= height) and inside the screen (dst_x + w <= 128,
\* dst_y + h <= 64), and the last byte its encoding touches, that of the
\* last row of the last column, is inside the 1024-byte report, as is every
\* pixel it reads inside the bitmap; the split is empty exactly when the
\* placed bitmap has no pixel on the screen.
C22_DrawablesInBounds ==
    hid.call = "prepare_for_report" =>
        LET in == hid.arg
            onScreen == /\ in.w > 0 /\ in.h > 0
                        /\ in.x < 128 /\ in.x + in.w > 0
                        /\ in.y < 64 /\ in.y + in.h > 0
        IN  /\ hid.value = <<>> <=> ~onScreen
            /\ \A k \in 1 .. Len(hid.value) :
                   LET d == hid.value[k]
                       stride == (((d.dst_y % 8) + d.h + 7) \div 8) * 8
                   IN  /\ d.w >= 1 /\ d.w <= 64 /\ d.h >= 1
                       /\ d.src_x >= 0 /\ d.src_x + d.w <= in.w
                       /\ d.src_y >= 0 /\ d.src_y + d.h <= in.h
                       /\ d.dst_x >= 0 /\ d.dst_x + d.w <= 128
                       /\ d.dst_y >= 0 /\ d.dst_y + d.h <= 64
                       /\ (((d.w - 1) * stride + (d.h - 1)) \div 8) + 6 < 1024
                       /\ (d.src_y + d.h - 1) * in.w + (d.src_x + d.w - 1)
                              < in.w * in.h

\* a 200x70 bitmap at (-50, -3) has been split into two chunks of 64
\* columns, clipped to the screen
C22_Witness ==
    /\ hid.call = "prepare_for_report"
    /\ hid.arg = [w |-> 200, h |-> 70, x |-> -50, y |-> -3]
    /\ hid.value = <<[w |-> 64, h |-> 64, dst_x |-> 0, dst_y |-> 0,
                      src_x |-> 50, src_y |-> 3],
                     [w |-> 64, h |-> 64, dst_x |-> 64, dst_y |-> 0,
                      src_x |-> 114, src_y |-> 3]>>

\* bit n of the payload of a report (the bytes after the six of the header)
PayloadBit(report, n) == IF <<6 + (n \div 8), n % 8>> \in report.bits THEN 1 ELSE 0
PayloadBits == (SCREEN_REPORT_SIZE - 6) * 8

\* C23: for a bitmap placed entirely inside the screen, no report panics,
\* each starts 06 93 dst_x dst_y w h, and with stride = ceil((dst_y mod 8 +
\* h) / 8) * 8 the payload bit c * stride + r of a report, for c < w and
\* r < h, is the source pixel (src_x + c, src_y + r); every source pixel is
\* the (c, r) of exactly one report, and every other payload bit is zero.
C23_ReportRoundTrip ==
    hid.call = "create_report" =>
        LET b == hid.arg.bitmap
            reps == hid.value
            inside == /\ hid.arg.x >= 0 /\ hid.arg.x + b.w <= 128
                      /\ hid.arg.y >= 0 /\ hid.arg.y + b.h <= 64
            stride(d) == (((d.dst_y % 8) + d.h + 7) \div 8) * 8
        IN  inside =>
              /\ \A k \in 1 .. Len(reps) :
                     LET d == reps[k].d
                         report == reps[k].report
                     IN  /\ ~reps[k].report.panic
                         /\ report.header = <<6, 147, d.dst_x, d.dst_y, d.w, d.h>>
                         /\ \A bit \in report.bits :
                                bit[1] \in 6 .. 1023 /\ bit[2] \in 0 .. 7
                         /\ \A c \in 0 .. d.w - 1, r \in 0 .. d.h - 1 :
                                PayloadBit(report, c * stride(d) + r) = 1
                                    <=> ((d.src_y + r) * b.w + d.src_x + c) \in b.data
                         /\ \A n \in 0 .. PayloadBits - 1 :
                                (n \div stride(d) >= d.w \/ n % stride(d) >= d.h)
                                    => PayloadBit(report, n) = 0
              /\ \A px \in 0 .. b.w - 1, py \in 0 .. b.h - 1 :
                     Cardinality({kcr \in (1 .. Len(reps)) \X (0 .. b.w - 1)
                                             \X (0 .. b.h - 1) :
                                     /\ kcr[2] < reps[kcr[1]].d.w
                                     /\ kcr[3] < reps[kcr[1]].d.h
                                     /\ reps[kcr[1]].d.src_x + kcr[2] = px
                                     /\ reps[kcr[1]].d.src_y + kcr[3] = py}) = 1

\* the 66x2 bitmap at (61, 5) went out as two reports; the second carries
\* columns 64 and 65, whose three set pixels are bits 0, 1 and 8 of its payload
C23_Witness ==
    /\ hid.call = "create_report"
    /\ hid.arg = [bitmap |-> Wide66x2, x |-> 61, y |-> 5]
    /\ Len(hid.value) = 2
    /\ hid.value[2].d = [w |-> 2, h |-> 2, dst_x |-> 125, dst_y |-> 5,
                          src_x |-> 64, src_y |-> 0]
    /\ hid.value[2].report.bits = {<<6, 0>>, <<6, 1>>, <<7, 0>>}

\* C24: crop(x, y, w, h) of a bitmap panics exactly when the rectangle
\* leaves the bitmap, and otherwise returns a w-by-h bitmap whose pixel
\* (i, j) is the source pixel (x + i, y + j).
C24_CropCopiesRectangle ==
    hid.call = "crop" =>
        LET a == hid.arg
            inside == a.x + a.w <= a.bitmap.w /\ a.y + a.h <= a.bitmap.h
        IN  /\ hid.value.panic <=> ~inside
            /\ inside =>
                   /\ hid.value.bitmap.w = a.w /\ hid.value.bitmap.h = a.h
                   /\ \A i \in 0 .. a.w - 1, j \in 0 .. a.h - 1 :
                          (j * a.w + i) \in hid.value.bitmap.data
                              <=> ((a.y + j) * a.bitmap.w + a.x + i) \in a.bitmap.data

\* what the code does: the panics are as claimed, and pixel (i, j) of the
\* result is the source pixel (i, j), whatever x and y
C24_CropCopiesTopLeft ==
    hid.call = "crop" =>
        LET a == hid.arg
            inside == a.x + a.w <= a.bitmap.w /\ a.y + a.h <= a.bitmap.h
        IN  /\ hid.value.panic <=> ~inside
            /\ inside =>
                   /\ hid.value.bitmap.w = a.w /\ hid.value.bitmap.h = a.h
                   /\ \A i \in 0 .. a.w - 1, j \in 0 .. a.h - 1 :
                          (j * a.w + i) \in hid.value.bitmap.data
                              <=> (j * a.bitmap.w + i) \in a.bitmap.data

\* the right pixel of the 2x2 bitmap with only pixel (1, 0) set was cropped
\* and came out clear
C24_Witness ==
    /\ hid.call = "crop"
    /\ hid.arg = [bitmap |-> [w |-> 2, h |-> 2, data |-> {1}],
                  x |-> 1, y |-> 0, w |-> 1, h |-> 1]
    /\ hid.value = [panic |-> FALSE, bitmap |-> [w |-> 1, h |-> 1, data |-> {}]]

\* the source placed at (x, y) shares a pixel with the destination
Intersects(a) ==
    /\ a.x < a.dst.w /\ a.x + a.src.w > 0
    /\ a.y < a.dst.h /\ a.y + a.src.h > 0

\* every index a blit visited lies inside the bit vector it indexes
VisitsInside(a, cells) ==
    \A c \in cells : /\ c.si \in 0 .. a.dst.w * a.dst.h - 1
                     /\ c.oi \in 0 .. a.src.w * a.src.h - 1

\* C25: for all x and y, dst.blit(src, x, y, opaque) returns, reads and
\* writes no bit outside dst's w * h bits and src's bits, and leaves dst
\* unchanged when the placed source does not intersect it.
C25_BlitStaysInside ==
    hid.call = "blit" =>
        /\ ~hid.value.panic
        /\ VisitsInside(hid.arg, hid.value.cells)
        /\ ~Intersects(hid.arg) => hid.value.bitmap = hid.arg.dst

\* what the code does: the claim holds for every x and y above isize::MIN,
\* and no index is ever outside; at isize::MIN the blit panics with
\* overflow checks and is the blit at offset 0 without them
C25_BlitStaysInsideAboveMin ==
    hid.call = "blit" =>
        LET a == hid.arg
            at_min == a.x = ISIZE_MIN \/ a.y = ISIZE_MIN
        IN  /\ hid.value.panic <=> (a.overflow_checks /\ at_min)
            /\ VisitsInside(a, hid.value.cells)
            /\ ~at_min /\ ~Intersects(a) => hid.value.bitmap = a.dst
            /\ ~a.overflow_checks /\ a.x = ISIZE_MIN /\ a.y = 0 =>
                   hid.value.bitmap = blit(a.dst, a.src, 0, 0, a.opaque)

\* a set pixel blitted at x = isize::MIN without overflow checks landed on
\* the clear 2x2 destination
C25_Witness ==
    /\ hid.call = "blit"
    /\ hid.arg.x = ISIZE_MIN /\ hid.arg.y = 0 /\ ~hid.arg.overflow_checks
    /\ hid.arg.dst = Bitmap_new(2, 2, FALSE)
    /\ hid.arg.src = Bitmap_new(1, 1, TRUE)
    /\ ~hid.value.panic
    /\ hid.value.bitmap = [w |-> 2, h |-> 2, data |-> {0}]

\* pixel (px, py) of a bitmap
Pixel(bitmap, px, py) == (px + py * bitmap.w) \in bitmap.data

\* the pixels of a returned blit: inside the placed source the source pixel
\* (opaque) or the old pixel or-ed with it (not opaque), outside it the old
\* pixel; and a second blit that is not opaque changes nothing
BlitPixels(a, result) ==
    /\ result.w = a.dst.w /\ result.h = a.dst.h
    /\ \A dx \in 0 .. a.dst.w - 1, dy \in 0 .. a.dst.h - 1 :
           LET inside == /\ a.x <= dx /\ dx < a.x + a.src.w
                         /\ a.y <= dy /\ dy < a.y + a.src.h
               old == Pixel(a.dst, dx, dy)
           IN  Pixel(result, dx, dy) <=>
                   IF ~inside THEN old
                   ELSE IF a.opaque THEN Pixel(a.src, dx - a.x, dy - a.y)
                   ELSE old \/ Pixel(a.src, dx - a.x, dy - a.y)
    /\ ~a.opaque => blit(result, a.src, a.x, a.y, FALSE) = result

\* C26: after dst.blit(src, x, y, opaque), a destination pixel inside the
\* intersection is the source pixel (dx - x, dy - y) when opaque and the old
\* pixel or-ed with it otherwise, every pixel outside the intersection
\* keeps its value, and the same blit with opaque = false twice is the
\* blit once.
C26_BlitPixels ==
    hid.call = "blit" /\ ~hid.value.panic => BlitPixels(hid.arg, hid.value.bitmap)

\* what the code does: the claim holds for every x and y above isize::MIN
C26_BlitPixelsAboveMin ==
    hid.call = "blit" /\ hid.arg.x # ISIZE_MIN /\ hid.arg.y # ISIZE_MIN =>
        ~hid.value.panic /\ BlitPixels(hid.arg, hid.value.bitmap)

\* an opaque blit at y = isize::MIN without overflow checks cleared the top
\* row of the set 2x2 destination
C26_Witness ==
    /\ hid.call = "blit"
    /\ hid.arg.x = 0 /\ hid.arg.y = ISIZE_MIN
    /\ hid.arg.opaque /\ ~hid.arg.overflow_checks
    /\ hid.arg.dst = Bitmap_new(2, 2, TRUE)
    /\ hid.arg.src = Bitmap_new(2, 2, FALSE)
    /\ ~hid.value.panic
    /\ hid.value.bitmap = Bitmap_new(2, 2, FALSE)

\* the cases of the claim away from isize::MIN all happen: an opaque blit
\* at a negative offset that cleared a set pixel, kept a pixel outside the
\* intersection and copied a set one
C26_Overwrites ==
    /\ hid.call = "blit"
    /\ hid.arg.x = -1 /\ hid.arg.y = 1 /\ hid.arg.opaque
    /\ hid.arg.dst = [w |-> 2, h |-> 2, data |-> {1, 2}]
    /\ hid.arg.src = [w |-> 2, h |-> 2, data |-> {0}]
    /\ hid.value.bitmap = [w |-> 2, h |-> 2, data |-> {1}]

\* the step is add_text_with_mode with the arguments e
AddsText(e) ==
    /\ cpc = "idle" /\ mutex = "none"
    /\ layer_counter + Len(e.bitmaps) <= MaxTextId
    /\ LET r == ApplyEdit(e, layer_counter, layers, now)
       IN  /\ layers' = r.layers
           /\ layer_counter' = r.layer_counter
           /\ issued' = issued \o r.ids

\* a / 2 on isize: the quotient rounded toward zero
Half(a) == IF a >= 0 THEN a \div 2 ELSE -((-a) \div 2)

\* C27: add_text over a text of n lines with line height L on a W x H
\* screen adds exactly n layers and returns their n ids in line order;
\* line i (from 0) is at y = y0 + i * L, y0 the given y or (H - n * L) / 2,
\* and a line that becomes an image is at the given x or at
\* (W - line width) / 2.
C27_TextPlacement ==
    [][\A e \in TextEdits :
          AddsText(e) =>
              LET n == Len(e.bitmaps)
                  y0 == IF e.y = None
                        THEN Half(DEVICE_HEIGHT - n * e.line_height)
                        ELSE e.y[1]
                  ids == [i \in 1 .. n |-> layer_counter + i]
              IN  /\ DOMAIN layers' = DOMAIN layers \cup {ids[i] : i \in 1 .. n}
                  /\ Cardinality(DOMAIN layers') = Cardinality(DOMAIN layers) + n
                  /\ \A id \in DOMAIN layers : layers'[id] = layers[id]
                  /\ issued' = issued \o ids
                  /\ \A i \in 1 .. n :
                         LET l == layers'[ids[i]].layer
                         IN  /\ l.bitmap = e.bitmaps[i]
                             /\ l.y = y0 + (i - 1) * e.line_height
                             /\ ~IsScroll(l) =>
                                    l.x = IF e.x = None
                                          THEN Half(DEVICE_WIDTH - l.bitmap.w)
                                          ELSE e.x[1]]_vars

\* three centred lines of height 23, together taller than the screen, were
\* added under Clip: images in line order from y = -2, the 20-pixel line at
\* x = 54 and the 200-pixel line at x = -36
C27_Witness ==
    /\ issued = <<1, 2, 3>>
    /\ layers[1].layer = Image(TextLine(20), 54, -2)
    /\ layers[2].layer = Image(TextLine(128), 0, 21)
    /\ layers[3].layer = Image(TextLine(200), -36, 44)

\* the two centred 20-pixel lines of height 16: x = 54, y = 16 and y = 32
C27_TwoLines ==
    /\ issued = <<1, 2>>
    /\ layers[1].layer = Image(TextLine(20), 54, 16)
    /\ layers[2].layer = Image(TextLine(20), 54, 32)

\* C28: a text line becomes a Scroll layer (ScrollNoShift when shift is
\* false) exactly when its width is at least the screen width and the mode
\* is Scroll, and an Image layer (ImageNoShift when shift is false)
\* otherwise, every line under Clip included.
C28_TextLayerKind ==
    [][\A e \in TextEdits :
          AddsText(e) =>
              \A i \in 1 .. Len(e.bitmaps) :
                  layers'[layer_counter + i].layer.kind =
                      IF e.bitmaps[i].w >= DEVICE_WIDTH /\ e.mode = "Scroll"
                      THEN IF e.do_shift THEN "Scroll" ELSE "ScrollNoShift"
                      ELSE IF e.do_shift THEN "Image" ELSE "ImageNoShift"]_vars

\* a text without shift was added under Scroll: its narrow line is an
\* image, its line exactly as wide as the screen and its wider line scroll
C28_Witness ==
    /\ layer_counter = 3
    /\ layers[1].layer.kind = "ImageNoShift" /\ layers[1].layer.bitmap.w = 20
    /\ layers[2].layer.kind = "ScrollNoShift" /\ layers[2].layer.bitmap.w = DEVICE_WIDTH
    /\ layers[3].layer.kind = "ScrollNoShift" /\ layers[3].layer.bitmap.w = 200

\* the line as wide as the screen, under Clip and with shift, is an image
C28_ClipIsImage ==
    /\ layer_counter = 2
    /\ layers[1].layer.kind = "Image" /\ layers[1].layer.bitmap.w = 129
    /\ layers[2].layer.kind = "Image" /\ layers[2].layer.bitmap.w = DEVICE_WIDTH

\* C29: prev_screen and last_frame_time are set to the composed screen and
\* the current time when device.draw succeeds; a draw that fails leaves
\* both unchanged.
C29_DrawRecordsOnSuccess ==
    [][io'.call = "draw" =>
          IF io'.ok
          THEN prev_screen' = screen /\ last_frame_time' = frame_time
          ELSE prev_screen' = prev_screen /\ last_frame_time' = last_frame_time]_vars

\* what the code does: last_frame_time is the frame time after every draw,
\* failed or not; prev_screen is the screen after a draw that succeeded
\* and unchanged after one that failed
C29_DrawRecords ==
    [][io'.call = "draw" =>
          /\ last_frame_time' = frame_time
          /\ prev_screen' = IF io'.ok THEN screen ELSE prev_screen]_vars

\* a draw has just failed, a frame time after the last draw: prev_screen is
\* not the screen sent, and last_frame_time is the time of the failed draw
C29_Witness ==
    /\ pc = "events"
    /\ io = Io("draw", FALSE)
    /\ prev_screen # screen
    /\ last_frame_time = frame_time
    /\ frame_time > 0

\* C30: when a read of the info endpoint fails during the event drain, the
\* worker marks the device disconnected, emits exactly one
\* DeviceDisconnected and forwards no DeviceEvent for that tick: the events
\* the same get_events call had already parsed are discarded.
C30_FailedDrainDisconnects ==
    [][io'.call = "get_events" /\ ~io'.ok =>
          /\ connected /\ ~connected'
          /\ event_queue' = Append(event_queue, DeviceDisconnected)
          /\ \E n \in 0 .. Len(pending) :
                 pending' = SubSeq(pending, n + 1, Len(pending))]_vars

\* the call that failed had read all four reports, three of which parse:
\* the client, which has read nothing yet, is sent DeviceDisconnected and
\* no DeviceEvent
C30_Witness ==
    /\ io = Io("get_events", FALSE)
    /\ pc = "end"
    /\ pending = <<>>
    /\ ~connected
    /\ event_queue = <<DeviceDisconnected>>
    /\ received = <<>>

\* the endpoints a Device holds
Endpoints(dev) == {dev.oled_dev} \cup {dev.info_dev[i] : i \in 1 .. Len(dev.info_dev)}

\* C31: Device::reconnect replaces the handle with a freshly connected
\* one only on success, the new handle starting with info_blocking_mode
\* unset; when connect fails it returns the error and the existing handle,
\* its endpoints and its info_blocking_mode are unchanged.
C31_ReconnectReplacesOnSuccess ==
    [][hid'.call = "reconnect" =>
          IF hid'.result = "ok"
          THEN /\ Endpoints(device') \cap (1 .. device.opened) = {}
               /\ device'.open = Endpoints(device')
               /\ device'.info_blocking_mode = None
          ELSE /\ hid'.result = "err"
               /\ device'.oled_dev = device.oled_dev
               /\ device'.info_dev = device.info_dev
               /\ device'.info_blocking_mode = device.info_blocking_mode
               /\ device'.open = device.open
               /\ device'.blocking = device.blocking
               /\ Endpoints(device') \subseteq device'.open]_vars

\* a reconnect failed on the second Device, whose info endpoint had been
\* set non-blocking: the Device is still the second one, still non-blocking
C31_Witness ==
    /\ hid.call = "reconnect" /\ hid.result = "err"
    /\ device.oled_dev = 3 /\ device.info_dev = Some(4)
    /\ device.open = {3, 4}
    /\ device.info_blocking_mode = Some(FALSE)

C33_SwitchesBack ==
    /\ hid.call = "poll_event"
    /\ device.log = <<[op |-> "set_blocking_mode", blocking |-> TRUE, ok |-> TRUE],
                      [op |-> "read", blocking |-> TRUE, ok |-> TRUE]>>
    /\ device.oled_dev = 1

\* C32: for a Scroll or ScrollNoShift layer whose pause_until is set, the
\* first rendered tick with now >= pause_until clears pause_until to None.
C32_PauseCleared ==
    [][PlanStep =>
          \A id \in DOMAIN layers :
              LET pre == layers[id].scroll
              IN  (IsScroll(layers[id].layer) /\ pre.pause_until # None
                   /\ time >= pre.pause_until[1]) =>
                      layers'[id].scroll.pause_until = None]_vars

\* what the code does: a rendered tick never clears pause_until; at or after
\* the time it holds the tick scrolls on and leaves the expired time in
\* place until the next revolution overwrites it
C32_PauseKept ==
    [][PlanStep =>
          \A id \in DOMAIN layers :
              LET pre == layers[id].scroll
                  post == layers'[id].scroll
              IN  (IsScroll(layers[id].layer) /\ pre.pause_until # None) =>
                      /\ post.pause_until # None
                      /\ time >= pre.pause_until[1] =>
                             /\ post.x # pre.x
                             /\ post.x # 0 => post.pause_until = pre.pause_until]_vars

\* the tick at the end of the pause has been planned: the one-pixel layer
\* has moved on to x = -1 and still holds the expired pause_until
C32_Witness ==
    /\ pc = "compose"
    /\ \E id \in DOMAIN layers :
           /\ layers[id].layer = ScrollNoShift(Dot, 0)
           /\ layers[id].scroll = [x |-> -1, pause_until |-> <<time>>]

\* the DeviceDisconnected and DeviceReconnected events of the stream, read
\* or still in the channel
IsConnEvent(ev) == ev \in {DeviceDisconnected, DeviceReconnected}
ConnEvents == SelectSeq(received \o event_queue, IsConnEvent)

\* DeviceDisconnected first, then DeviceReconnected, and so on
Alternates(evs) ==
    \A k \in 1 .. Len(evs) :
        evs[k] = IF k % 2 = 1 THEN DeviceDisconnected ELSE DeviceReconnected

\* C34: in the event stream of one DrawDevice, DeviceDisconnected and
\* DeviceReconnected strictly alternate beginning with DeviceDisconnected:
\* DeviceDisconnected is emitted only when connected goes from true to
\* false and DeviceReconnected only when it goes from false to true,
\* whichever of SetVolume, draw and get_events fails and however many fail
\* in one tick.
C34_ConnEventsAlternate ==
    [][/\ Alternates(ConnEvents')
       /\ \/ ConnEvents' = ConnEvents
          \/ ConnEvents' = Append(ConnEvents, DeviceDisconnected)
          \/ ConnEvents' = Append(ConnEvents, DeviceReconnected)
       /\ ConnEvents' = Append(ConnEvents, DeviceDisconnected)
             <=> (connected /\ ~connected')
       /\ ConnEvents' = Append(ConnEvents, DeviceReconnected)
             <=> (~connected /\ connected')
       /\ connected' <=> Len(ConnEvents') % 2 = 0]_vars

\* the device was lost twice and found again once: the second loss, right
\* after the reconnect, came from get_events, the first from set_volume
C34_Witness ==
    /\ ConnEvents = <<DeviceDisconnected, DeviceReconnected, DeviceDisconnected>>
    /\ io = Io("get_events", FALSE)
    /\ ~connected
    /\ faults = MaxConnFaults - 1

\* every failure site has disconnected the device once in one run
C34_ThreeSites ==
    /\ Len(ConnEvents) = 5
    /\ faults = 0
    /\ io = Io("draw", FALSE)

\* the worker drains a SetVolume command in this step
DrainsSetVolume ==
    /\ pc = "drain" /\ cmd_queue # <<>> /\ Head(cmd_queue).cmd = "SetVolume"
    /\ cmd_queue' = Tail(cmd_queue)

\* C36: every error Device::set_volume returns for a SetVolume command
\* processed while connected makes the worker mark the device disconnected
\* and emit DeviceDisconnected, SetVolume(v) with v > 56 included, where the
\* range check fails and no byte is written to the device.
C36_VolumeErrorDisconnects ==
    [][(DrainsSetVolume /\ connected) =>
          LET v == Head(cmd_queue).arg
          IN  /\ io'.call = "set_volume"
              /\ v > 56 => /\ ~io'.ok
                           /\ ~set_volume(v, TRUE).wrote
                           /\ faults' = faults
              /\ ~io'.ok => /\ ~connected'
                            /\ event_queue' = Append(event_queue, DeviceDisconnected)
              /\ io'.ok => connected' /\ event_queue' = event_queue]_vars

\* SetVolume(57) was drained on a device that never failed: the worker is
\* disconnected and has said so
C36_Witness ==
    /\ io = Io("set_volume", FALSE)
    /\ faults = MaxConnFaults
    /\ ~connected
    /\ event_queue = <<DeviceDisconnected>>

\* C37: a SetVolume command drained while the worker is disconnected is
\* discarded: nothing is written to the device, no event is emitted, the
\* connected flag is unchanged, and the command is not replayed after a
\* later reconnect (set_volume is only ever called for the command being
\* drained, while connected).
C37_VolumeDiscardedOffline ==
    [][/\ (DrainsSetVolume /\ ~connected) =>
            /\ io' = NoIo
            /\ faults' = faults
            /\ event_queue' = event_queue
            /\ ~connected'
       /\ io'.call = "set_volume" => DrainsSetVolume /\ connected
       /\ (pc = "reconnect" /\ pc' = "render") => cmd_queue' = cmd_queue]_vars

\* in the first tick SetVolume(57) disconnected the worker and the SetVolume
\* sent after it has just been drained (the step was not a call, the queue
\* is empty, Play was never sent): one event, no write, still disconnected
C37_Witness ==
    /\ pc = "drain" /\ iter = 0
    /\ io = NoIo
    /\ cmd_queue = <<>>
    /\ ~connected /\ ~playing
    /\ event_queue = <<DeviceDisconnected>>
    /\ faults = MaxConnFaults

\* the device was found again two ticks after SetVolume(57) lost it: the
\* only events are the loss and the reconnect, and nothing was written
C37_Reconnected ==
    /\ io = Io("reconnect", TRUE)
    /\ ConnEvents = <<DeviceDisconnected, DeviceReconnected>>
    /\ cmd_queue = <<>>
    /\ faults = MaxConnFaults
    /\ iter = 2

\* column col of the screen lies in one of the dupes + 1 copies of the op,
\* each scroll_w wide
InACopy(op, col) ==
    \E i \in 0 .. op.dupes :
        /\ op.x + i * op.scroll_w <= col
        /\ col < op.x + (i + 1) * op.scroll_w

\* scroll.x stays within a revolution, and the op planned has
\* scroll_w = bitmap.w + 30 and dupes = 1 + screen_w / scroll_w
ScrollOpAsPlanned(st, post, op) ==
    LET w == st.layer.bitmap.w + 30
    IN  /\ -w < st.scroll.x /\ st.scroll.x <= 0
        /\ -w < post.scroll.x /\ post.scroll.x <= 0
        /\ op.scroll_w = w
        /\ op.dupes = 1 + (DEVICE_WIDTH \div w)
        /\ op.x = st.scroll.x + (IF st.layer.kind = "Scroll" THEN shift[1] ELSE 0)

\* C35 as stated: for every Scroll or ScrollNoShift layer, after any number
\* of rendered ticks -scroll_w < scroll.x <= 0 with scroll_w = bitmap.w + 30,
\* and the dupes + 1 copies blitted at x + i * scroll_w, i in [0, dupes],
\* dupes = 1 + screen_w / scroll_w, together span every screen column.
C35_CopiesSpanScreen ==
    [][PlanStep =>
          \A id \in DOMAIN layers :
              IsScroll(layers[id].layer) =>
                  LET op == OpOfLayer(layers, render_ops', id)
                  IN  /\ ScrollOpAsPlanned(layers[id], layers'[id], op)
                      /\ \A col \in 0 .. DEVICE_WIDTH - 1 : InACopy(op, col)]_vars

\* C35, amended: scroll.x and the op are as stated, and the copies span
\* every screen column from the burn-in shift on: all of them for a
\* ScrollNoShift layer and for a Scroll layer unless scroll.x = 0 and the
\* shift is one pixel to the right, when the first copy starts at column 1
\* and column 0 alone lies outside the copies.
C35_CopiesSpanFromShift ==
    [][PlanStep =>
          \A id \in DOMAIN layers :
              IsScroll(layers[id].layer) =>
                  LET op == OpOfLayer(layers, render_ops', id)
                      one_right == /\ layers[id].layer.kind = "Scroll"
                                   /\ layers[id].scroll.x = 0
                                   /\ shift[1] = 1
                  IN  /\ ScrollOpAsPlanned(layers[id], layers'[id], op)
                      /\ \A col \in 1 .. DEVICE_WIDTH - 1 : InACopy(op, col)
                      /\ InACopy(op, 0) <=> ~one_right]_vars

\* a one-pixel Scroll layer has been planned at scroll.x = 0 under the
\* shift (1, -1): five copies 31 apart, the first at column 1
C35_Witness ==
    /\ pc = "compose"
    /\ shift = <<1, -1>>
    /\ render_ops = <<ScrollOp(Dot, 1, 4, 31, 5)>>

\* the same layer late in its revolution under the same shift: the first
\* copy starts at column -29, the last ends at column 156
C35_LateInRevolution ==
    /\ pc = "compose"
    /\ shift = <<1, -1>>
    /\ render_ops = <<ScrollOp(Dot, -29, 4, 31, 5)>>

\* how many Stop commands were sent: those in the channel and the one the
\* worker has drained in its last tick
StopsSent ==
    Cardinality({k \in 1 .. Len(cmd_queue) : cmd_queue[k].cmd = "Stop"})
        + (IF stop_after_frame THEN 1 ELSE 0)

\* C38: whether a DrawDevice is ended by stop(), by being dropped, or by
\* stop() followed by the implicit drop, exactly one Stop command is sent
\* and the worker is joined exactly once; the worker never sends on the
\* event channel after the client's receiver is gone and never finds the
\* command channel closed before it has drained Stop.
C38_OneStopOneJoin ==
    [][/\ cpc' \in {"joining", "stopped", "dropped"} => StopsSent' = 1
       /\ cpc' \in {"idle", "txn"} => StopsSent' = 0
       /\ cpc' # cpc =>
              \/ {cpc, cpc'} = {"idle", "txn"}
              \/ cpc = "idle" /\ cpc' = "joining"
              \/ cpc = "joining" /\ cpc' = "stopped" /\ pc = "done"
              \/ cpc = "stopped" /\ cpc' = "dropped"
       /\ cpc' = "dropped" => pc' = "done" /\ cmd_queue' = <<>>
       /\ Len(event_queue') > Len(event_queue) => cpc \in {"idle", "txn", "joining"}
       /\ (pc = "drain" /\ pc' # "drain") => cpc \in {"idle", "txn", "joining"}]_vars

\* the device was dropped after its worker, which had lost the device in its
\* last tick, was joined: the event stays unread in the channel
C38_Witness ==
    /\ cpc = "dropped"
    /\ pc = "done"
    /\ stop_after_frame
    /\ cmd_queue = <<>>
    /\ event_queue = <<DeviceDisconnected>>
    /\ io = NoIo

\* C39: while the worker is connected but not playing, every tick still
\* drains the info endpoint and forwards the device events, and a read
\* failure still produces DeviceDisconnected; in such ticks no layer's
\* animation cursor, next_update, scroll.x or pause_until changes, and the
\* same holds for every tick spent disconnected.
C39_IdleTicksDrainOnly ==
    [][/\ (pc = "render" /\ pc' # pc) =>
              (pc' = "events" <=> ~(connected /\ playing))
       /\ (pc = "events" /\ pc' # pc /\ connected) =>
              /\ io'.call = "get_events"
              /\ io'.ok =>
                     \E n \in 0 .. Len(pending) :
                         LET events == get_events(SubSeq(pending, 1, n))
                         IN  /\ pending' = SubSeq(pending, n + 1, Len(pending))
                             /\ event_queue' = event_queue \o
                                    [k \in 1 .. Len(events) |-> DeviceEvent(events[k])]
              /\ ~io'.ok => /\ ~connected'
                            /\ event_queue' = Append(event_queue, DeviceDisconnected)
       /\ (\E id \in DOMAIN layers \cap DOMAIN layers' :
                \/ layers'[id].anim # layers[id].anim
                \/ layers'[id].scroll # layers[id].scroll) =>
              PlanStep /\ connected /\ playing]_vars

\* three ticks went by without Play: the worker forwarded the three events
\* of the four reports, and the two layers are as they were added
C39_Witness ==
    /\ iter = 3
    /\ ~playing /\ connected
    /\ Len(event_queue) = 3
    /\ pending = <<>>
    /\ DOMAIN layers = {1, 2}
    /\ \A id \in {1, 2} : /\ layers[id].anim = [ticks |-> 0, next_update |-> 0]
                          /\ layers[id].scroll = [x |-> 0, pause_until |-> None]

\* a tick without Play lost the device at the read of the info endpoint
C39_IdleReadFails ==
    /\ ~playing /\ ~connected
    /\ io = Io("get_events", FALSE)
    /\ event_queue = <<DeviceDisconnected>>
    /\ prev_screen = Bitmap_new(0, 0, FALSE)

\* C40: the client and the worker cannot deadlock.  The layer-store mutex is
\* held by the worker only inside its planning step and by the client only
\* inside a transaction, never by a thread that waits for it; the two are
\* never both waiting; and under the fairness of SpecLive every client call
\* that waits for the store or runs a transaction returns and every worker
\* tick that waits for the store gets it and plans its frame.
C40_NoDeadlock ==
    /\ [](/\ mutex = "worker" => pc = "plan"
          /\ mutex = "client" => cpc = "txn"
          /\ pc = "lock" /\ cpc = "locking" => mutex = "none")
    /\ (cpc \in {"locking", "txn"}) ~> (cpc = "idle")
    /\ (pc = "lock") ~> (pc = "plan")
\* a client call waits in lock() while the worker holds the store to plan
C40_Witness == cpc = "locking" /\ mutex = "worker" /\ pc = "plan"
\* the worker waits in lock() while a transaction holds the store
C40_WorkerWaits == pc = "lock" /\ mutex = "client" /\ cpc = "txn" /\ txn.applied = 0

=============================================================================
